---- MODULE Spec2Model ----
(***************************************************************************)
(* A model of the scoring-completeness analysis engine of TGAScoringAudit  *)
(* (src/tga_scoring_audit/analysis/scoring.py): the tolerant extractors,   *)
(* the score validity predicate and the two public entry points of         *)
(* ScoringAnalyzer, executed step by step over JSON-like payloads.         *)
(***************************************************************************)
EXTENDS Integers, Sequences, FiniteSets, TLC

(***************************************************************************)
(* Python values.  Every value is a record tagged with its Python type, so *)
(* that isinstance() is a test of the tag.  A str is its sequence of       *)
(* characters; a dict is a function from its (string) keys to values; a    *)
(* float is either a finite number given by its truncation toward zero and *)
(* whether a fractional part is left, or one of inf and nan.               *)
(***************************************************************************)
None == [t |-> "NoneType"]
PyInt(n) == [t |-> "int", v |-> n]
PyBool(b) == [t |-> "bool", v |-> b]
PyStr(chars) == [t |-> "str", v |-> chars]
PyFloat(trunc, frac) == [t |-> "float", k |-> "finite", v |-> trunc, frac |-> frac]
PyInf == [t |-> "float", k |-> "inf", v |-> 0, frac |-> FALSE]
PyNaN == [t |-> "float", k |-> "nan", v |-> 0, frac |-> FALSE]
PyList(seq) == [t |-> "list", v |-> seq]
PyDict(map) == [t |-> "dict", v |-> map]
EmptyDict == PyDict(<<>>)

isinstance(x, type) == x.t = type

\* The characters of the string literals the analyzer looks up.
Chars ==
  [ players |-> <<"p", "l", "a", "y", "e", "r", "s">>,
    player |-> <<"p", "l", "a", "y", "e", "r">>,
    pairing |-> <<"p", "a", "i", "r", "i", "n", "g">>,
    members |-> <<"m", "e", "m", "b", "e", "r", "s">>,
    name |-> <<"n", "a", "m", "e">>,
    scores |-> <<"s", "c", "o", "r", "e", "s">>,
    score |-> <<"s", "c", "o", "r", "e">>,
    holes |-> <<"h", "o", "l", "e", "s">>,
    pairing_group |-> <<"p", "a", "i", "r", "i", "n", "g", "_", "g", "r", "o", "u", "p">>,
    score_array |-> <<"s", "c", "o", "r", "e", "_", "a", "r", "r", "a", "y">>,
    hole_scores |-> <<"h", "o", "l", "e", "_", "s", "c", "o", "r", "e", "s">> ]

\* Truthy, were only the emptiness of a list tested.
TruthyOfLists(x) == IF x.t = "list" THEN Len(x.v) > 0 ELSE TRUE

\* Python truthiness: what `not x` negates.
Truthy(x) ==
  CASE x.t = "NoneType" -> FALSE
    [] x.t = "bool" -> x.v
    [] x.t = "int" -> x.v # 0
    [] x.t = "float" -> ~(x.k = "finite" /\ x.v = 0 /\ ~x.frac)
    [] x.t = "str" -> Len(x.v) > 0
    [] x.t = "list" -> Len(x.v) > 0
    [] x.t = "dict" -> DOMAIN x.v # {}

(***************************************************************************)
(* Outcomes of a call that may raise: the returned value, or the exception *)
(* with its class and its message (what str(e) gives).                     *)
(***************************************************************************)
Return(value) == [raised |-> FALSE, value |-> value]
Raise(type, msg) == [raised |-> TRUE, type |-> type, msg |-> msg]
NoException == [type |-> "", msg |-> ""]

RECURSIVE SetToSeq(_)
SetToSeq(S) ==
  IF S = {} THEN <<>>
  ELSE LET x == CHOOSE y \in S : TRUE IN <<x>> \o SetToSeq(S \ {x})

\* iter(x) of a for statement: the elements the loop visits.
Iterate(x) ==
  CASE x.t = "list" -> Return(x.v)
    [] x.t = "dict" -> Return([i \in 1..Cardinality(DOMAIN x.v) |->
                                 PyStr(Chars[SetToSeq(DOMAIN x.v)[i]])])
    [] x.t = "str" -> Return([i \in 1..Len(x.v) |-> PyStr(<<x.v[i]>>)])
    [] OTHER -> Raise("TypeError", "'" \o x.t \o "' object is not iterable")

IsSubstring(needle, hay) ==
  \E i \in 0..(Len(hay) - Len(needle)) : SubSeq(hay, i + 1, i + Len(needle)) = needle

\* `key in x` for a string literal key.
Contains(key, x) ==
  CASE x.t = "dict" -> Return(key \in DOMAIN x.v)
    [] x.t = "list" -> Return(\E i \in 1..Len(x.v) :
                                x.v[i].t = "str" /\ x.v[i].v = Chars[key])
    [] x.t = "str" -> Return(IsSubstring(Chars[key], x.v))
    [] OTHER -> Raise("TypeError", "argument of type '" \o x.t \o "' is not iterable")

\* `x[key]` for a string literal key that `key in x` found.
Subscript(x, key) ==
  CASE x.t = "dict" -> Return(x.v[key])
    [] x.t = "list" -> Raise("TypeError", "list indices must be integers or slices, not str")
    [] OTHER -> Raise("TypeError", "string indices must be integers, not 'str'")

(***************************************************************************)
(* The builtins _has_valid_scores applies to a raw score value.            *)
(***************************************************************************)
Whitespace == {" ", "\t", "\n", "\r"}
Digits == <<"0", "1", "2", "3", "4", "5", "6", "7", "8", "9">>
IsDigit(c) == \E d \in 1..10 : Digits[d] = c
DigitValue(c) == (CHOOSE d \in 1..10 : Digits[d] = c) - 1

RECURSIVE lstrip(_)
lstrip(chars) ==
  IF Len(chars) > 0 /\ Head(chars) \in Whitespace THEN lstrip(Tail(chars)) ELSE chars

RECURSIVE rstrip(_)
rstrip(chars) ==
  IF Len(chars) > 0 /\ chars[Len(chars)] \in Whitespace
  THEN rstrip(SubSeq(chars, 1, Len(chars) - 1))
  ELSE chars

\* str.strip()
strip(chars) == rstrip(lstrip(chars))

RECURSIVE DigitsValue(_)
DigitsValue(body) ==
  IF Len(body) = 0 THEN 0
  ELSE IF body[Len(body)] = "_" THEN DigitsValue(SubSeq(body, 1, Len(body) - 1))
  ELSE 10 * DigitsValue(SubSeq(body, 1, Len(body) - 1)) + DigitValue(body[Len(body)])

\* The digits of an int literal: decimal digits in which single underscores
\* may separate digits.
WellFormed(body) ==
  /\ Len(body) > 0
  /\ IsDigit(body[1])
  /\ IsDigit(body[Len(body)])
  /\ \A i \in 1..Len(body) : IsDigit(body[i]) \/ body[i] = "_"
  /\ \A i \in 1..(Len(body) - 1) : ~(body[i] = "_" /\ body[i + 1] = "_")

IntOfBody(body, negative) ==
  IF ~WellFormed(body)
  THEN Raise("ValueError", "invalid literal for int() with base 10")
  ELSE Return(IF negative THEN 0 - DigitsValue(body) ELSE DigitsValue(body))

IntOfStripped(s) ==
  IF Len(s) > 0 /\ s[1] \in {"+", "-"}
  THEN IntOfBody(Tail(s), s[1] = "-")
  ELSE IntOfBody(s, FALSE)

\* int(s) for a str: surrounding whitespace, an optional sign, then digits.
IntOfStr(chars) == IntOfStripped(strip(chars))

\* int(x)
int(x) ==
  CASE x.t = "int" -> Return(x.v)
    [] x.t = "bool" -> Return(IF x.v THEN 1 ELSE 0)
    [] x.t = "float" ->
         IF x.k = "finite" THEN Return(x.v)
         ELSE IF x.k = "nan"
              THEN Raise("ValueError", "cannot convert float NaN to integer")
              ELSE Raise("OverflowError", "cannot convert float infinity to integer")
    [] x.t = "str" -> IntOfStr(x.v)
    [] OTHER -> Raise("TypeError", "int() argument must be a string, a bytes-like object or a real number, not '" \o x.t \o "'")

\* The decimal digits of a natural number.
RECURSIVE DigitChars(_)
DigitChars(n) ==
  IF n < 10 THEN <<Digits[n + 1]>> ELSE DigitChars(n \div 10) \o <<Digits[(n % 10) + 1]>>

\* str(x): the text of a str, of an int, of a bool and of None; for the
\* other values a text that keeps the delimiters and the emptiness of the
\* real one (one "?" per element).
str(x) ==
  CASE x.t = "str" -> x.v
    [] x.t = "NoneType" -> <<"N", "o", "n", "e">>
    [] x.t = "int" -> IF x.v < 0 THEN <<"-">> \o DigitChars(0 - x.v) ELSE DigitChars(x.v)
    [] x.t = "bool" -> IF x.v THEN <<"T", "r", "u", "e">> ELSE <<"F", "a", "l", "s", "e">>
    [] x.t = "float" -> IF x.k = "nan" THEN <<"n", "a", "n">> ELSE <<"i", "n", "f">>
    [] x.t = "list" -> <<"[">> \o [i \in 1..Len(x.v) |-> "?"] \o <<"]">>
    [] x.t = "dict" -> <<"{">> \o [i \in 1..Cardinality(DOMAIN x.v) |-> "?"] \o <<"}">>

\* str(n) of a natural number inside an f-string.
RECURSIVE format(_)
format(n) ==
  IF n < 10 THEN Digits[n + 1] ELSE format(n \div 10) \o Digits[(n % 10) + 1]

(***************************************************************************)
(* ScoringAnalyzer._extract_players                                        *)
(***************************************************************************)
PlayerKeys == <<"players", "player", "pairing", "members">>

\* FallbackOf, were only the name key looked for.
FallbackOfName(pairing_group, hasName, hasScores) ==
  IF hasName.raised THEN hasName
  ELSE IF hasName.value THEN Return(<<pairing_group>>)
  ELSE Return(<<>>)

\* Lines 113-117: the pairing group itself looks like a player.
FallbackOf(pairing_group, hasName, hasScores) ==
  IF hasName.raised THEN hasName
  ELSE IF hasName.value THEN Return(<<pairing_group>>)
  ELSE IF hasScores.raised THEN hasScores
  ELSE IF hasScores.value THEN Return(<<pairing_group>>)
  ELSE Return(<<>>)

ExtractPlayersFallback(pairing_group) ==
  FallbackOf(pairing_group, Contains("name", pairing_group), Contains("scores", pairing_group))

\* Lines 105-111 from the k-th alias key on.
RECURSIVE ExtractPlayersFrom(_, _)

\* PlayersData, were the search ended at the first key present.
PlayersDataFirstPresent(pairing_group, k, players_data) ==
  IF players_data.raised THEN players_data
  ELSE IF isinstance(players_data.value, "list") THEN Return(players_data.value.v)
  ELSE IF isinstance(players_data.value, "dict") THEN Return(<<players_data.value>>)
  ELSE Return(<<>>)

\* PlayersData, were a list wrapped like a single mapping.
PlayersDataWrapped(pairing_group, k, players_data) ==
  IF players_data.raised THEN players_data
  ELSE IF players_data.value.t \in {"list", "dict"} THEN Return(<<players_data.value>>)
  ELSE ExtractPlayersFrom(pairing_group, k + 1)

\* Lines 107-111: the value found under the k-th alias key.
PlayersData(pairing_group, k, players_data) ==
  IF players_data.raised THEN players_data
  ELSE IF isinstance(players_data.value, "list") THEN Return(players_data.value.v)
  ELSE IF isinstance(players_data.value, "dict") THEN Return(<<players_data.value>>)
  ELSE ExtractPlayersFrom(pairing_group, k + 1)

\* Line 106: the outcome of `key in pairing_group` for the k-th alias key.
PlayersKey(pairing_group, k, present) ==
  IF present.raised THEN present
  ELSE IF ~present.value THEN ExtractPlayersFrom(pairing_group, k + 1)
  ELSE PlayersData(pairing_group, k, Subscript(pairing_group, PlayerKeys[k]))

ExtractPlayersFrom(pairing_group, k) ==
  IF k > Len(PlayerKeys) THEN ExtractPlayersFallback(pairing_group)
  ELSE PlayersKey(pairing_group, k, Contains(PlayerKeys[k], pairing_group))

_extract_players(pairing_group) == ExtractPlayersFrom(pairing_group, 1)

(***************************************************************************)
(* ScoringAnalyzer._extract_scores (player is a dict)                      *)
(***************************************************************************)
ScoreKeys == <<"score_array", "scores", "score", "holes", "hole_scores">>

\* ExtractScoresFrom, were the first key present taken whatever it holds.
RECURSIVE ExtractScoresFirstPresent(_, _)
ExtractScoresFirstPresent(player, k) ==
  IF k > Len(ScoreKeys) THEN <<>>
  ELSE IF ScoreKeys[k] \in DOMAIN player.v
  THEN IF isinstance(player.v[ScoreKeys[k]], "list") THEN player.v[ScoreKeys[k]].v ELSE <<>>
  ELSE ExtractScoresFirstPresent(player, k + 1)

\* Lines 123-128 from the k-th key on.
RECURSIVE ExtractScoresFrom(_, _)
ExtractScoresFrom(player, k) ==
  IF k > Len(ScoreKeys) THEN <<>>
  ELSE IF ScoreKeys[k] \in DOMAIN player.v /\ isinstance(player.v[ScoreKeys[k]], "list")
  THEN player.v[ScoreKeys[k]].v
  ELSE ExtractScoresFrom(player, k + 1)

_extract_scores(player) == ExtractScoresFrom(player, 1)

(***************************************************************************)
(* ScoringAnalyzer._has_valid_scores                                       *)
(***************************************************************************)
MinScore == 1
MaxScore == 15

\* Line 134: score is None or score == "" or score == 0 or score == {}
IsSkipped(score) ==
  \/ score.t = "NoneType"
  \/ score.t = "str" /\ Len(score.v) = 0
  \/ score.t = "int" /\ score.v = 0
  \/ score.t = "bool" /\ ~score.v
  \/ score.t = "float" /\ score.k = "finite" /\ score.v = 0 /\ ~score.frac
  \/ score.t = "dict" /\ DOMAIN score.v = {}

\* ScoreOutcomeOf, were an integer out of range handed to the fallback of
\* lines 146-149.
ScoreOutcomeOfFallThrough(score, score_int) ==
  IF ~score_int.raised /\ MinScore <= score_int.value /\ score_int.value <= MaxScore
  THEN Return("valid")
  ELSE IF ~score_int.raised \/ score_int.type \in {"ValueError", "TypeError"}
  THEN IF Len(strip(str(score))) > 0 /\ str(score) # <<"{", "}">>
       THEN Return("valid") ELSE Return("next")
  ELSE score_int

\* ScoreOutcomeOf, were a value that int() rejects passed by.
ScoreOutcomeOfNumericOnly(score, score_int) ==
  IF ~score_int.raised
  THEN IF MinScore <= score_int.value /\ score_int.value <= MaxScore
       THEN Return("valid") ELSE Return("next")
  ELSE IF score_int.type \in {"ValueError", "TypeError"} THEN Return("next")
  ELSE score_int

\* Lines 142-149 for one score, given the outcome of int(score): "valid"
\* (return True), "next" (go on with the next score), or the exception that
\* neither except clause catches.
ScoreOutcomeOf(score, score_int) ==
  IF ~score_int.raised
  THEN IF MinScore <= score_int.value /\ score_int.value <= MaxScore
       THEN Return("valid") ELSE Return("next")
  ELSE IF score_int.type \in {"ValueError", "TypeError"}
  THEN IF Len(strip(str(score))) > 0 /\ str(score) # <<"{", "}">>
       THEN Return("valid") ELSE Return("next")
  ELSE score_int

\* Lines 134-149 for one score.
ScoreOutcome(score) ==
  IF IsSkipped(score) THEN Return("next") ELSE ScoreOutcomeOf(score, int(score))

RECURSIVE HasValidScoresFrom(_, _)

HasValidScoresNext(scores, i, outcome) ==
  IF outcome.raised THEN outcome
  ELSE IF outcome.value = "valid" THEN Return(TRUE)
  ELSE HasValidScoresFrom(scores, i + 1)

HasValidScoresFrom(scores, i) ==
  IF i > Len(scores) THEN Return(FALSE)
  ELSE HasValidScoresNext(scores, i, ScoreOutcome(scores[i]))

_has_valid_scores(scores) == HasValidScoresFrom(scores, 1)

(***************************************************************************)
(* The bodies of the two traversals, and the decision after the pass.      *)
(***************************************************************************)
\* Decide with the polarity of the docstring: flagged when only one side has
\* scores.
DecideIncomplete(total_players, total_front_9_scores, total_back_9_scores) ==
  LET has_front_9_scores == total_front_9_scores > 0
      has_back_9_scores == total_back_9_scores > 0
  IN IF total_players = 0
     THEN [is_flagged |-> FALSE, reason |-> "No players found in tee sheet"]
     ELSE IF has_front_9_scores /\ has_back_9_scores
     THEN [is_flagged |-> FALSE,
           reason |-> "Complete scoring detected: F9=" \o format(total_front_9_scores)
                      \o ", B9=" \o format(total_back_9_scores) \o " players"]
     ELSE IF has_front_9_scores
     THEN [is_flagged |-> TRUE,
           reason |-> "Only front 9 scores found (" \o format(total_front_9_scores)
                      \o "/" \o format(total_players) \o " players)"]
     ELSE IF has_back_9_scores
     THEN [is_flagged |-> TRUE,
           reason |-> "Only back 9 scores found (" \o format(total_back_9_scores)
                      \o "/" \o format(total_players) \o " players)"]
     ELSE [is_flagged |-> FALSE, reason |-> "No scores found on either front or back 9"]

\* Decide without the test of total_players.
DecideWithoutPlayerTest(total_players, total_front_9_scores, total_back_9_scores) ==
  LET has_front_9_scores == total_front_9_scores > 0
      has_back_9_scores == total_back_9_scores > 0
  IN IF has_front_9_scores /\ has_back_9_scores
     THEN [is_flagged |-> TRUE,
           reason |-> "Complete scoring detected: F9=" \o format(total_front_9_scores)
                      \o ", B9=" \o format(total_back_9_scores) \o " players"]
     ELSE IF has_front_9_scores
     THEN [is_flagged |-> FALSE,
           reason |-> "Only front 9 scores found (" \o format(total_front_9_scores)
                      \o "/" \o format(total_players) \o " players)"]
     ELSE IF has_back_9_scores
     THEN [is_flagged |-> FALSE,
           reason |-> "Only back 9 scores found (" \o format(total_back_9_scores)
                      \o "/" \o format(total_players) \o " players)"]
     ELSE [is_flagged |-> FALSE, reason |-> "No scores found on either front or back 9"]

\* Decide, were the front-only test of line 84 to ask for two front nines.
DecideFrontAboveOne(total_players, total_front_9_scores, total_back_9_scores) ==
  LET has_front_9_scores == total_front_9_scores > 0
      has_back_9_scores == total_back_9_scores > 0
  IN IF total_players = 0
     THEN [is_flagged |-> FALSE, reason |-> "No players found in tee sheet"]
     ELSE IF has_front_9_scores /\ has_back_9_scores
     THEN [is_flagged |-> TRUE,
           reason |-> "Complete scoring detected: F9=" \o format(total_front_9_scores)
                      \o ", B9=" \o format(total_back_9_scores) \o " players"]
     ELSE IF total_front_9_scores > 1 /\ ~has_back_9_scores
     THEN [is_flagged |-> FALSE,
           reason |-> "Only front 9 scores found (" \o format(total_front_9_scores)
                      \o "/" \o format(total_players) \o " players)"]
     ELSE IF has_back_9_scores /\ ~has_front_9_scores
     THEN [is_flagged |-> FALSE,
           reason |-> "Only back 9 scores found (" \o format(total_back_9_scores)
                      \o "/" \o format(total_players) \o " players)"]
     ELSE IF ~has_front_9_scores /\ ~has_back_9_scores
     THEN [is_flagged |-> FALSE, reason |-> "No scores found on either front or back 9"]
     ELSE [is_flagged |-> FALSE, reason |-> "Unexpected scoring state"]

\* Lines 70-100 of analyze_round_scoring.
Decide(total_players, total_front_9_scores, total_back_9_scores) ==
  LET has_front_9_scores == total_front_9_scores > 0
      has_back_9_scores == total_back_9_scores > 0
  IN IF total_players = 0
     THEN [is_flagged |-> FALSE, reason |-> "No players found in tee sheet"]
     ELSE IF has_front_9_scores /\ has_back_9_scores
     THEN [is_flagged |-> TRUE,
           reason |-> "Complete scoring detected: F9=" \o format(total_front_9_scores)
                      \o ", B9=" \o format(total_back_9_scores) \o " players"]
     ELSE IF has_front_9_scores /\ ~has_back_9_scores
     THEN [is_flagged |-> FALSE,
           reason |-> "Only front 9 scores found (" \o format(total_front_9_scores)
                      \o "/" \o format(total_players) \o " players)"]
     ELSE IF has_back_9_scores /\ ~has_front_9_scores
     THEN [is_flagged |-> FALSE,
           reason |-> "Only back 9 scores found (" \o format(total_back_9_scores)
                      \o "/" \o format(total_players) \o " players)"]
     ELSE IF ~has_front_9_scores /\ ~has_back_9_scores
     THEN [is_flagged |-> FALSE, reason |-> "No scores found on either front or back 9"]
     ELSE [is_flagged |-> FALSE, reason |-> "Unexpected scoring state"]

\* Lines 26-27.
EmptyVerdict == [is_flagged |-> TRUE, reason |-> "No tee sheet data available"]

\* ErrorVerdict, were a processing failure passed instead of flagged.
ErrorVerdictUnflagged(exc) ==
  [is_flagged |-> FALSE, reason |-> "Error analyzing scores: " \o exc.msg]

\* Lines 66-67.
ErrorVerdict(exc) == [is_flagged |-> TRUE, reason |-> "Error analyzing scores: " \o exc.msg]

\* Caught, were the clause `except (ValueError, TypeError)`.
CaughtValueAndTypeErrors(exc) == exc.type \in {"ValueError", "TypeError"}

\* `except Exception`: the classes the clause catches.
ExceptionClasses == {"TypeError", "ValueError", "OverflowError"}
Caught(exc) == exc.type \in ExceptionClasses

\* Lines 38-45 and 178-184: the players of one mapping entry.
PlayersOfItem(item) ==
  IF "pairing_group" \in DOMAIN item.v
  THEN _extract_players(item.v["pairing_group"])
  ELSE _extract_players(item)

\* The exception an outcome carries.
ExceptionOf(outcome) == [type |-> outcome.type, msg |-> outcome.msg]

\* Lines 59-64: the two half counts, given the outcomes of the two tests.
AnalyzeHalves(counted, front, back) ==
  IF front.raised THEN [loc |-> counted, exc |-> ExceptionOf(front)]
  ELSE IF back.raised
  THEN [loc |-> [counted EXCEPT !.total_front_9_scores = IF front.value THEN @ + 1 ELSE @],
        exc |-> ExceptionOf(back)]
  ELSE [loc |-> [counted EXCEPT
                   !.total_front_9_scores = IF front.value THEN @ + 1 ELSE @,
                   !.total_back_9_scores = IF back.value THEN @ + 1 ELSE @],
        exc |-> NoException]

\* Lines 52-64, given the scores of the player.
AnalyzeScores(counted, scores) ==
  IF Len(scores) < 18 THEN [loc |-> counted, exc |-> NoException]
  ELSE AnalyzeHalves(counted, _has_valid_scores(SubSeq(scores, 1, 9)),
                     _has_valid_scores(SubSeq(scores, 10, 18)))

\* Lines 48-64 for one player: the locals after the iteration, and the
\* exception that ended it, if any.
AnalyzePlayer(loc, player) ==
  IF ~isinstance(player, "dict") THEN [loc |-> loc, exc |-> NoException]
  ELSE AnalyzeScores([loc EXCEPT !.total_players = @ + 1], _extract_scores(player))

\* Lines 197-205, were a player with either half valid counted as complete.
DetailHalvesEither(counted, has_front_9, has_back_9) ==
  IF has_front_9.raised THEN [loc |-> counted, exc |-> ExceptionOf(has_front_9)]
  ELSE IF has_back_9.raised THEN [loc |-> counted, exc |-> ExceptionOf(has_back_9)]
  ELSE [loc |-> [counted EXCEPT
                   !.front_9_players = IF has_front_9.value THEN @ + 1 ELSE @,
                   !.back_9_players = IF has_back_9.value THEN @ + 1 ELSE @,
                   !.complete_players =
                      IF has_front_9.value \/ has_back_9.value THEN @ + 1 ELSE @],
        exc |-> NoException]

\* Lines 197-205: the three counts, given the outcomes of the two tests.
DetailHalves(counted, has_front_9, has_back_9) ==
  IF has_front_9.raised THEN [loc |-> counted, exc |-> ExceptionOf(has_front_9)]
  ELSE IF has_back_9.raised THEN [loc |-> counted, exc |-> ExceptionOf(has_back_9)]
  ELSE [loc |-> [counted EXCEPT
                   !.front_9_players = IF has_front_9.value THEN @ + 1 ELSE @,
                   !.back_9_players = IF has_back_9.value THEN @ + 1 ELSE @,
                   !.complete_players =
                      IF has_front_9.value /\ has_back_9.value THEN @ + 1 ELSE @],
        exc |-> NoException]

\* DetailScores, were the back nine the slice from index 9 to the end.
DetailScoresToTheEnd(counted, scores) ==
  IF Len(scores) < 18 THEN [loc |-> counted, exc |-> NoException]
  ELSE DetailHalves(counted, _has_valid_scores(SubSeq(scores, 1, 9)),
                    _has_valid_scores(SubSeq(scores, 10, Len(scores))))

\* Lines 191-205, given the scores of the player.
DetailScores(counted, scores) ==
  IF Len(scores) < 18 THEN [loc |-> counted, exc |-> NoException]
  ELSE DetailHalves(counted, _has_valid_scores(SubSeq(scores, 1, 9)),
                    _has_valid_scores(SubSeq(scores, 10, 18)))

\* DetailPlayer, were an element that is no mapping counted as a player.
DetailPlayerCountingAll(loc, player) ==
  IF ~isinstance(player, "dict")
  THEN [loc |-> [loc EXCEPT !.total_players = @ + 1], exc |-> NoException]
  ELSE DetailScores([loc EXCEPT !.total_players = @ + 1], _extract_scores(player))

\* Lines 187-205 for one player.
DetailPlayer(loc, player) ==
  IF ~isinstance(player, "dict") THEN [loc |-> loc, exc |-> NoException]
  ELSE DetailScores([loc EXCEPT !.total_players = @ + 1], _extract_scores(player))

\* ZeroRecord, were the record of an unanalysable round left unflagged.
ZeroRecordUnflagged(flag_reason) ==
  [total_players |-> 0, front_9_players |-> 0, back_9_players |-> 0,
   complete_players |-> 0, incomplete_players |-> 0,
   is_flagged |-> FALSE, flag_reason |-> flag_reason]

\* Lines 158-166 and 208-216: the record with every count zero.
ZeroRecord(flag_reason) ==
  [total_players |-> 0, front_9_players |-> 0, back_9_players |-> 0,
   complete_players |-> 0, incomplete_players |-> 0,
   is_flagged |-> TRUE, flag_reason |-> flag_reason]

\* DetailedRecord, were incomplete_players taken from the front-9 count.
DetailedRecordFromFront(loc, result) ==
  [total_players |-> loc.total_players,
   front_9_players |-> loc.front_9_players,
   back_9_players |-> loc.back_9_players,
   complete_players |-> loc.complete_players,
   incomplete_players |-> loc.total_players - loc.front_9_players,
   is_flagged |-> result.is_flagged,
   flag_reason |-> result.reason]

\* Lines 221-229.
DetailedRecord(loc, result) ==
  [total_players |-> loc.total_players,
   front_9_players |-> loc.front_9_players,
   back_9_players |-> loc.back_9_players,
   complete_players |-> loc.complete_players,
   incomplete_players |-> loc.incomplete_players,
   is_flagged |-> result.is_flagged,
   flag_reason |-> result.reason]

(***************************************************************************)
(* The payloads the entry points are called with: tee sheets of up to      *)
(* MaxItems entries drawn from Entries, and the payloads that are no list. *)
(***************************************************************************)
MaxItems == 2

Rep(x, n) == [i \in 1..n |-> x]
Ints(seq) == [i \in 1..Len(seq) |-> PyInt(seq[i])]

FrontNine == Ints(<<4, 5, 3, 4, 5, 4, 4, 3, 5>>)
BackNine == Ints(<<4, 4, 5, 3, 4, 4, 5, 4, 3>>)
TestName == PyStr(<<"T", "e", "s", "t">>)

PlayerWith(scores) == PyDict([name |-> TestName, scores |-> PyList(scores)])

CompletePlayer == PlayerWith(FrontNine \o BackNine)
FrontOnlyPlayer == PlayerWith(FrontNine \o Rep(None, 9))
BackOnlyPlayer == PlayerWith(Rep(None, 9) \o BackNine)
NoScoresPlayer == PlayerWith(Rep(None, 18))
ShortPlayer == PlayerWith(FrontNine \o SubSeq(BackNine, 1, 8))
InfinityPlayer == PlayerWith(FrontNine \o <<PyInf>> \o Rep(None, 8))
NamedPlayer == PyDict([name |-> TestName])

\* Front nine of values that are skipped or out of range; back nine with one
\* non-numeric text.
SentinelPlayer ==
  PlayerWith(<<None, PyStr(<<>>), PyInt(0), EmptyDict, PyStr(<<"0">>), PyStr(<<"2", "0">>),
               PyInt(16), PyInt(-1), PyStr(<<" ">>)>>
             \o <<PyStr(<<"X">>)>> \o Rep(None, 8))

\* Front nine with a NaN; back nine of values that are skipped, out of range
\* or the text "{}".
NaNPlayer ==
  PlayerWith(<<PyNaN>> \o Rep(None, 8)
             \o <<PyStr(<<"{", "}">>), PyBool(FALSE), PyFloat(0, FALSE), PyStr(<<"-", "3">>),
                  PyFloat(0, TRUE), PyInt(0), None, None, None>>)
ScalarScoresPlayer == PyDict([name |-> TestName, scores |-> PyInt(72)])

Players(seq) == PyDict([players |-> PyList(seq)])

Entries ==
  << Players(<<CompletePlayer>>),
     Players(<<FrontOnlyPlayer>>),
     Players(<<BackOnlyPlayer>>),
     Players(<<NoScoresPlayer>>),
     Players(<<CompletePlayer, FrontOnlyPlayer>>),
     Players(<<ShortPlayer, None, ScalarScoresPlayer>>),
     Players(<<InfinityPlayer>>),
     Players(<<SentinelPlayer, NaNPlayer>>),
     PyDict([pairing_group |-> Players(<<BackOnlyPlayer>>)]),
     PyDict([pairing_group |-> None]),
     PyDict([pairing_group |-> PyInt(7)]),
     PyDict([pairing_group |-> PyStr(Chars["players"])]),
     PyDict([pairing_group |-> PyList(<<PyStr(Chars["name"])>>)]),
     PyDict([player |-> NamedPlayer]),
     FrontOnlyPlayer,
     EmptyDict,
     None >>

NonLists ==
  << None, PyInt(0), PyInt(5), PyBool(TRUE), PyStr(<<>>), PyStr(<<"a", "b">>),
     EmptyDict, Players(<<CompletePlayer>>) >>

EntryPoints == {"analyze_round_scoring", "get_detailed_analysis"}

(***************************************************************************)
(* State: the argument and the locals of the running call, the exception   *)
(* bound by the except clause, and what the two methods returned.          *)
(***************************************************************************)
VARIABLES
  entry,           \* the public method that was called
  tee_sheet_data,  \* its argument
  pc,              \* the statement the call is at
  items, item_i,   \* the outer for loop: the entries and the current index
  players, player_j,  \* the inner for loop
  analyze,         \* locals of analyze_round_scoring
  detailed,        \* locals of get_detailed_analysis
  e,               \* the exception an except clause bound
  verdict,         \* what analyze_round_scoring returned
  analysis,        \* what get_detailed_analysis returned
  earlier          \* the counters earlier calls had left when the current call was made

\* A private helper of ScoringAnalyzer called on its own.
VARIABLES
  helper,          \* the helper that was called, "" before any call
  argument,        \* its argument
  outcome          \* what it returned or raised

\* One Round object (models/round.py).
VARIABLES
  round_obj,       \* the fields of the object
  created,         \* the fields it was created with
  last_call        \* the last call made on it

\* TGAScoringAudit._analyze_scoring (main.py).
VARIABLES
  api,             \* self.api is set
  tee_sheets,      \* what get_tee_sheet answers for each round
  rounds,          \* the argument: the Round objects
  round_i,         \* the index of the for loop
  flagged_rounds,  \* the list being built: indexes into rounds
  driver_pc        \* where _analyze_scoring is

\* GolfGeniusAPI.get_all_events.
VARIABLES
  page,            \* the page to request next
  all_events,      \* the events collected so far
  requested,       \* the pages requested so far, in the order of the requests
  last_answer,     \* what the client gave for the last request
  pager_pc         \* where get_all_events is: idle, loop, stopped, returned

analyzerVars == <<entry, tee_sheet_data, pc, items, item_i, players, player_j,
                  analyze, detailed, e, verdict, analysis, earlier>>
helperVars == <<helper, argument, outcome>>
roundVars == <<round_obj, created, last_call>>
driverVars == <<api, tee_sheets, rounds, round_i, flagged_rounds, driver_pc>>
pagerVars == <<page, all_events, requested, last_answer, pager_pc>>
vars == <<analyzerVars, helperVars, roundVars, driverVars, pagerVars>>

\* What a step of a call of the analyzer leaves alone.
outside == <<earlier, helperVars, roundVars, driverVars, pagerVars>>

AnalyzeLocals == [total_players |-> 0, total_front_9_scores |-> 0, total_back_9_scores |-> 0]
DetailedLocals == [total_players |-> 0, front_9_players |-> 0, back_9_players |-> 0,
                   complete_players |-> 0, incomplete_players |-> 0]
NoVerdict == [is_flagged |-> FALSE, reason |-> ""]
NoAnalysis == [ZeroRecord("") EXCEPT !.is_flagged = FALSE]

\* No helper has been called, no Round created, _analyze_scoring not entered.
HelperInit ==
  /\ helper = ""
  /\ argument = None
  /\ outcome = Return(None)

NoRound == [id |-> None, event_id |-> None, name |-> None, date |-> None,
            is_flagged |-> FALSE, flag_reason |-> ""]

RoundInit ==
  /\ round_obj = NoRound
  /\ created = NoRound
  /\ last_call = [op |-> "", reason |-> "", before |-> ""]

PagerInit ==
  /\ page = 0
  /\ all_events = <<>>
  /\ requested = <<>>
  /\ last_answer = Return(None)
  /\ pager_pc = "idle"

DriverInit ==
  /\ api = FALSE
  /\ tee_sheets = <<>>
  /\ rounds = <<>>
  /\ round_i = 0
  /\ flagged_rounds = <<>>
  /\ driver_pc = "idle"

Init ==
  /\ entry = "analyze_round_scoring"
  /\ tee_sheet_data = None
  /\ pc = "idle"
  /\ items = <<>>
  /\ item_i = 0
  /\ players = <<>>
  /\ player_j = 0
  /\ analyze = AnalyzeLocals
  /\ detailed = DetailedLocals
  /\ e = NoException
  /\ verdict = NoVerdict
  /\ analysis = NoAnalysis
  /\ earlier = AnalyzeLocals
  /\ HelperInit
  /\ RoundInit
  /\ DriverInit
  /\ PagerInit

\* A caller invokes one of the two public methods on a payload.
CallWith(method, payload) ==
  /\ entry' = method
  /\ tee_sheet_data' = payload
  /\ pc' = IF method = "analyze_round_scoring" THEN "analyze.start" ELSE "detailed.start"
  /\ items' = <<>>
  /\ item_i' = 0
  /\ players' = <<>>
  /\ player_j' = 0
  /\ analyze' = AnalyzeLocals
  /\ detailed' = DetailedLocals
  /\ e' = NoException
  /\ verdict' = NoVerdict
  /\ analysis' = NoAnalysis
  /\ UNCHANGED outside

CallWithTeeSheet ==
  /\ pc = "idle"
  /\ \E method \in EntryPoints, n \in 0..MaxItems :
       \E choice \in [1..n -> 1..Len(Entries)] :
         CallWith(method, PyList([i \in 1..n |-> Entries[choice[i]]]))

CallWithNonList ==
  /\ pc = "idle"
  /\ \E method \in EntryPoints, k \in 1..Len(NonLists) : CallWith(method, NonLists[k])

\* A later call on the same analyzer, after a call has returned.  The
\* analyzer has no attributes; what the counters of analyze_round_scoring
\* last held is left in them, so that a call which used a counter before
\* binding it would depend on the calls before it.
CallAgainWith(method, payload) ==
  /\ entry' = method
  /\ tee_sheet_data' = payload
  /\ pc' = IF method = "analyze_round_scoring" THEN "analyze.start" ELSE "detailed.start"
  /\ items' = <<>>
  /\ item_i' = 0
  /\ players' = <<>>
  /\ player_j' = 0
  /\ analyze' = analyze
  /\ detailed' = DetailedLocals
  /\ e' = NoException
  /\ verdict' = NoVerdict
  /\ analysis' = NoAnalysis
  /\ earlier' = analyze
  /\ UNCHANGED <<helperVars, roundVars, driverVars, pagerVars>>

\* The later call is made on the empty tee sheet, on a tee sheet of one
\* entry, or on a payload that is no list.
CallAgain ==
  /\ pc = "done"
  /\ \E method \in EntryPoints :
       \/ CallAgainWith(method, PyList(<<>>))
       \/ \E k \in 1..Len(Entries) : CallAgainWith(method, PyList(<<Entries[k]>>))
       \/ \E k \in 1..Len(NonLists) : CallAgainWith(method, NonLists[k])

\* Where analyze_round_scoring returns to.
AnalyzeReturn == IF entry = "analyze_round_scoring" THEN "done" ELSE "detailed.return"

\* Line 34 and line 174: the for statement takes the iterator of the payload.
StartLoop(it, frame) ==
  IF it.raised
  THEN /\ e' = ExceptionOf(it)
       /\ pc' = frame \o ".except"
       /\ UNCHANGED <<items, item_i>>
  ELSE /\ items' = it.value
       /\ item_i' = 1
       /\ pc' = frame \o ".for_item"
       /\ UNCHANGED e

\* Lines 38-45 and 178-184: the players of the entry become the inner loop.
EnterPlayers(found, frame) ==
  IF found.raised
  THEN /\ e' = ExceptionOf(found)
       /\ pc' = frame \o ".except"
       /\ UNCHANGED <<players, player_j>>
  ELSE /\ players' = found.value
       /\ player_j' = 1
       /\ pc' = frame \o ".for_player"
       /\ UNCHANGED e

\* Lines 34-45 and 174-184: the next entry of the tee sheet, up to its players.
ForItem(frame, after) ==
  /\ IF item_i > Len(items)
     THEN /\ pc' = after
          /\ UNCHANGED <<item_i, players, player_j, e>>
     ELSE IF ~isinstance(items[item_i], "dict")
     THEN /\ item_i' = item_i + 1
          /\ UNCHANGED <<pc, players, player_j, e>>
     ELSE /\ EnterPlayers(PlayersOfItem(items[item_i]), frame)
          /\ UNCHANGED item_i
  /\ UNCHANGED <<entry, tee_sheet_data, items, analyze, detailed, verdict, analysis>>
  /\ UNCHANGED outside

\* The end of one iteration of the inner loop.
AfterPlayer(exc, frame) ==
  IF exc = NoException
  THEN /\ player_j' = player_j + 1
       /\ UNCHANGED <<pc, e>>
  ELSE /\ e' = exc
       /\ pc' = frame \o ".except"
       /\ UNCHANGED player_j

\* BindCounters, were the counters kept from one call to the next.
KeepCounters(left) == left

\* Lines 29-31: the three counters are bound to zero, whatever was left in
\* them.
BindCounters(left) == AnalyzeLocals

\* Lines 26-34: the pre-check, the counters, and the start of the loop.
AnalyzeStart ==
  /\ pc = "analyze.start"
  /\ IF ~Truthy(tee_sheet_data)
     THEN /\ verdict' = EmptyVerdict
          /\ pc' = AnalyzeReturn
          /\ UNCHANGED <<items, item_i, e, analyze>>
     ELSE /\ StartLoop(Iterate(tee_sheet_data), "analyze")
          /\ analyze' = BindCounters(analyze)
          /\ UNCHANGED verdict
  /\ UNCHANGED <<entry, tee_sheet_data, players, player_j, detailed, analysis>>
  /\ UNCHANGED outside

\* Lines 34-45: the next entry of the tee sheet, up to its players.
AnalyzeForItem ==
  /\ pc = "analyze.for_item"
  /\ ForItem("analyze", "analyze.decide")

\* Lines 47-64 for the player the loop is at.
AnalyzeStep(step) ==
  /\ analyze' = step.loc
  /\ AfterPlayer(step.exc, "analyze")

\* Lines 47-64: the next player of the entry.
AnalyzeForPlayer ==
  /\ pc = "analyze.for_player"
  /\ IF player_j > Len(players)
     THEN /\ item_i' = item_i + 1
          /\ pc' = "analyze.for_item"
          /\ UNCHANGED <<player_j, analyze, e>>
     ELSE /\ AnalyzeStep(AnalyzePlayer(analyze, players[player_j]))
          /\ UNCHANGED item_i
  /\ UNCHANGED <<entry, tee_sheet_data, items, players, detailed, verdict, analysis>>
  /\ UNCHANGED outside

\* Lines 66-67: the except clause.
AnalyzeExcept ==
  /\ pc = "analyze.except"
  /\ IF Caught(e)
     THEN /\ verdict' = ErrorVerdict(e)
          /\ pc' = AnalyzeReturn
     ELSE /\ pc' = "raised"
          /\ UNCHANGED verdict
  /\ UNCHANGED <<entry, tee_sheet_data, items, item_i, players, player_j,
                 analyze, detailed, e, analysis>>
  /\ UNCHANGED outside

\* Lines 69-100: the decision after a pass without exception.
AnalyzeDecide ==
  /\ pc = "analyze.decide"
  /\ verdict' = Decide(analyze.total_players, analyze.total_front_9_scores,
                       analyze.total_back_9_scores)
  /\ pc' = AnalyzeReturn
  /\ UNCHANGED <<entry, tee_sheet_data, items, item_i, players, player_j,
                 analyze, detailed, e, analysis>>
  /\ UNCHANGED outside

\* Lines 157-174 of get_detailed_analysis.
DetailedStart ==
  /\ pc = "detailed.start"
  /\ IF ~Truthy(tee_sheet_data)
     THEN /\ analysis' = ZeroRecord("No tee sheet data available")
          /\ pc' = "done"
          /\ UNCHANGED <<items, item_i, e>>
     ELSE /\ StartLoop(Iterate(tee_sheet_data), "detailed")
          /\ UNCHANGED analysis
  /\ detailed' = DetailedLocals
  /\ UNCHANGED <<entry, tee_sheet_data, players, player_j, analyze, verdict>>
  /\ UNCHANGED outside

\* Lines 174-184.
DetailedForItem ==
  /\ pc = "detailed.for_item"
  /\ ForItem("detailed", "detailed.call")

\* Lines 186-205 for the player the loop is at.
DetailedStep(step) ==
  /\ detailed' = step.loc
  /\ AfterPlayer(step.exc, "detailed")

\* Lines 186-205.
DetailedForPlayer ==
  /\ pc = "detailed.for_player"
  /\ IF player_j > Len(players)
     THEN /\ item_i' = item_i + 1
          /\ pc' = "detailed.for_item"
          /\ UNCHANGED <<player_j, detailed, e>>
     ELSE /\ DetailedStep(DetailPlayer(detailed, players[player_j]))
          /\ UNCHANGED item_i
  /\ UNCHANGED <<entry, tee_sheet_data, items, players, analyze, verdict, analysis>>
  /\ UNCHANGED outside

\* DetailedExcept, were the counts made before the exception reported.
DetailedExceptKeepingCounts ==
  /\ pc = "detailed.except"
  /\ analysis' = DetailedRecord(detailed, ErrorVerdict(e))
  /\ pc' = "done"
  /\ UNCHANGED <<entry, tee_sheet_data, items, item_i, players, player_j,
                 analyze, detailed, e, verdict>>
  /\ UNCHANGED outside

\* Lines 207-216.
DetailedExcept ==
  /\ pc = "detailed.except"
  /\ IF Caught(e)
     THEN /\ analysis' = ZeroRecord("Error analyzing scores: " \o e.msg)
          /\ pc' = "done"
     ELSE /\ pc' = "raised"
          /\ UNCHANGED analysis
  /\ UNCHANGED <<entry, tee_sheet_data, items, item_i, players, player_j,
                 analyze, detailed, e, verdict>>
  /\ UNCHANGED outside

\* Lines 218-219: incomplete_players, then the call of analyze_round_scoring.
DetailedCall ==
  /\ pc = "detailed.call"
  /\ detailed' = [detailed EXCEPT
                    !.incomplete_players = detailed.total_players - detailed.complete_players]
  /\ pc' = "analyze.start"
  /\ UNCHANGED <<entry, tee_sheet_data, items, item_i, players, player_j,
                 analyze, e, verdict, analysis>>
  /\ UNCHANGED outside

\* Lines 219-229: the call has returned; build the record.
DetailedReturn ==
  /\ pc = "detailed.return"
  /\ analysis' = DetailedRecord(detailed, verdict)
  /\ pc' = "done"
  /\ UNCHANGED <<entry, tee_sheet_data, items, item_i, players, player_j,
                 analyze, detailed, e, verdict>>
  /\ UNCHANGED outside

Next ==
  \/ CallWithTeeSheet
  \/ CallWithNonList
  \/ AnalyzeStart
  \/ AnalyzeForItem
  \/ AnalyzeForPlayer
  \/ AnalyzeExcept
  \/ AnalyzeDecide
  \/ DetailedStart
  \/ DetailedForItem
  \/ DetailedForPlayer
  \/ DetailedExcept
  \/ DetailedCall
  \/ DetailedReturn

Spec == Init /\ [][Next]_vars

\* The analyzer serving one call after the other.
SessionNext == Next \/ CallAgain

SessionSpec == Init /\ [][SessionNext]_vars

\* The steps of a call that is under way.  The interpreter runs them one
\* after the other without waiting on anything, so a call that can step does.
Run ==
  \/ AnalyzeStart
  \/ AnalyzeForItem
  \/ AnalyzeForPlayer
  \/ AnalyzeExcept
  \/ AnalyzeDecide
  \/ DetailedStart
  \/ DetailedForItem
  \/ DetailedForPlayer
  \/ DetailedExcept
  \/ DetailedCall
  \/ DetailedReturn

TypeOK ==
  /\ entry \in EntryPoints
  /\ pc \in {"idle", "done", "raised", "analyze.start", "analyze.for_item",
             "analyze.for_player", "analyze.except", "analyze.decide",
             "detailed.start", "detailed.for_item", "detailed.for_player",
             "detailed.except", "detailed.call", "detailed.return"}
  /\ item_i \in 0..(Len(items) + 1)
  /\ player_j \in 0..(Len(players) + 1)
  /\ verdict.is_flagged \in BOOLEAN
  /\ analysis.is_flagged \in BOOLEAN

(***************************************************************************)
(* analyze_round_scoring as a function of its argument: what one call on a *)
(* fresh analyzer returns (or raises), computed in one piece.              *)
(***************************************************************************)
RECURSIVE AnalyzePlayersFrom(_, _, _)

AnalyzePlayersNext(step, found, j) ==
  IF step.exc # NoException THEN step ELSE AnalyzePlayersFrom(step.loc, found, j + 1)

\* Lines 47-64: the inner loop from the j-th player on.
AnalyzePlayersFrom(loc, found, j) ==
  IF j > Len(found) THEN [loc |-> loc, exc |-> NoException]
  ELSE AnalyzePlayersNext(AnalyzePlayer(loc, found[j]), found, j)

RECURSIVE AnalyzeItemsFrom(_, _, _)

AnalyzeItemsNext(step, entries, i) ==
  IF step.exc # NoException THEN step ELSE AnalyzeItemsFrom(step.loc, entries, i + 1)

AnalyzeItemPlayers(loc, found, entries, i) ==
  IF found.raised THEN [loc |-> loc, exc |-> ExceptionOf(found)]
  ELSE AnalyzeItemsNext(AnalyzePlayersFrom(loc, found.value, 1), entries, i)

\* Lines 34-64: the outer loop from the i-th entry on.
AnalyzeItemsFrom(loc, entries, i) ==
  IF i > Len(entries) THEN [loc |-> loc, exc |-> NoException]
  ELSE IF ~isinstance(entries[i], "dict") THEN AnalyzeItemsFrom(loc, entries, i + 1)
  ELSE AnalyzeItemPlayers(loc, PlayersOfItem(entries[i]), entries, i)

\* Lines 29-64: the counters after the pass, and the exception that ended it.
AnalyzeLoop(it) ==
  IF it.raised THEN [loc |-> AnalyzeLocals, exc |-> ExceptionOf(it)]
  ELSE AnalyzeItemsFrom(AnalyzeLocals, it.value, 1)

AnalyzePass(payload) == AnalyzeLoop(Iterate(payload))

\* Lines 66-100: what the call returns after the pass.
AnalyzeOutcome(pass) ==
  IF pass.exc = NoException
  THEN Return(Decide(pass.loc.total_players, pass.loc.total_front_9_scores,
                     pass.loc.total_back_9_scores))
  ELSE IF Caught(pass.exc) THEN Return(ErrorVerdict(pass.exc))
  ELSE Raise(pass.exc.type, pass.exc.msg)

analyze_round_scoring(payload) ==
  IF ~Truthy(payload) THEN Return(EmptyVerdict) ELSE AnalyzeOutcome(AnalyzePass(payload))

(***************************************************************************)
(* get_detailed_analysis as a function of its argument, in the same way.   *)
(***************************************************************************)
RECURSIVE DetailPlayersFrom(_, _, _)

DetailPlayersNext(step, found, j) ==
  IF step.exc # NoException THEN step ELSE DetailPlayersFrom(step.loc, found, j + 1)

\* Lines 186-205: the inner loop from the j-th player on.
DetailPlayersFrom(loc, found, j) ==
  IF j > Len(found) THEN [loc |-> loc, exc |-> NoException]
  ELSE DetailPlayersNext(DetailPlayer(loc, found[j]), found, j)

RECURSIVE DetailItemsFrom(_, _, _)

\* DetailItemsNext, were the loop left after the first mapping entry.
DetailItemsNextLeaving(step, entries, i) == step

DetailItemsNext(step, entries, i) ==
  IF step.exc # NoException THEN step ELSE DetailItemsFrom(step.loc, entries, i + 1)

DetailItemPlayers(loc, found, entries, i) ==
  IF found.raised THEN [loc |-> loc, exc |-> ExceptionOf(found)]
  ELSE DetailItemsNext(DetailPlayersFrom(loc, found.value, 1), entries, i)

\* Lines 174-205: the outer loop from the i-th entry on.
DetailItemsFrom(loc, entries, i) ==
  IF i > Len(entries) THEN [loc |-> loc, exc |-> NoException]
  ELSE IF ~isinstance(entries[i], "dict") THEN DetailItemsFrom(loc, entries, i + 1)
  ELSE DetailItemPlayers(loc, PlayersOfItem(entries[i]), entries, i)

\* Lines 168-205: the counters after the pass, and the exception that ended it.
DetailedLoop(it) ==
  IF it.raised THEN [loc |-> DetailedLocals, exc |-> ExceptionOf(it)]
  ELSE DetailItemsFrom(DetailedLocals, it.value, 1)

\* Lines 218-229: the record, given what analyze_round_scoring returned.
DetailedResult(loc, result) ==
  IF result.raised THEN result
  ELSE Return(DetailedRecord([loc EXCEPT !.incomplete_players =
                                           loc.total_players - loc.complete_players],
                             result.value))

\* Lines 207-229: what the call returns after the pass.
DetailedOutcome(pass, payload) ==
  IF pass.exc = NoException THEN DetailedResult(pass.loc, analyze_round_scoring(payload))
  ELSE IF Caught(pass.exc) THEN Return(ZeroRecord("Error analyzing scores: " \o pass.exc.msg))
  ELSE Raise(pass.exc.type, pass.exc.msg)

get_detailed_analysis(payload) ==
  IF ~Truthy(payload) THEN Return(ZeroRecord("No tee sheet data available"))
  ELSE DetailedOutcome(DetailedLoop(Iterate(payload)), payload)

(***************************************************************************)
(* The three private helpers called on their own, as the unit tests call   *)
(* them: each call takes one argument from the sets below.                 *)
(***************************************************************************)
MaxSlice == 2

\* Raw score values: the skipped ones, integers in and out of range, texts
\* that int() reads and texts that it rejects, floats, booleans, containers.
ScoreValues ==
  { None, PyStr(<<>>), PyInt(0), EmptyDict,
    PyInt(0 - 1), PyInt(1), PyInt(4), PyInt(15), PyInt(16),
    PyStr(<<"0">>), PyStr(<<"2", "0">>), PyStr(<<"7">>), PyStr(<<"-", "1">>),
    PyStr(<<" ", "1", "5", " ">>), PyStr(<<"X">>), PyStr(<<" ">>), PyStr(<<"{", "}">>),
    PyInf, PyNaN, PyFloat(4, TRUE), PyBool(TRUE), PyBool(FALSE),
    NamedPlayer, PyList(<<>>) }

Slices == UNION { [1..n -> ScoreValues] : n \in 0..MaxSlice }

\* What an alias key of a pairing group may hold.
SecondPlayer == PlayerWith(<<PyInt(4)>>)
AliasValues ==
  { PyList(<<>>), PyList(<<NamedPlayer>>), PyList(<<NamedPlayer, None, SecondPlayer>>),
    NamedPlayer, None, PyInt(7) }

\* The keys a pairing group has besides the alias keys.
OtherFields ==
  { <<>>, [name |-> TestName], [scores |-> PyList(<<>>)],
    [name |-> TestName, scores |-> PyList(<<PyInt(4)>>)],
    [score_array |-> PyList(<<PyInt(4)>>), holes |-> PyList(<<>>), hole_scores |-> None] }

PairingGroups ==
  { PyDict(aliases @@ other) :
      aliases \in UNION { [keys -> AliasValues] : keys \in SUBSET {"players", "player", "pairing", "members"} },
      other \in OtherFields }

\* Arguments of _extract_players that are no mapping.
NonMappings ==
  { None, PyInt(7), PyStr(Chars["players"]), PyStr(Chars["holes"]),
    PyList(<<PyStr(Chars["name"])>>), PyList(<<>>) }

\* Player records: any of the score keys, holding a list or something else.
ScoreFieldValues == { PyList(<<PyInt(4), None>>), PyList(<<>>), PyInt(72), None }

PlayerMappings ==
  { PyDict(fields @@ other) :
      fields \in UNION { [keys -> ScoreFieldValues] :
                           keys \in SUBSET {"score_array", "scores", "score", "holes", "hole_scores"} },
      other \in { <<>>, [name |-> TestName] } }

CallHelper(name, value, result) ==
  /\ helper' = name
  /\ argument' = value
  /\ outcome' = result
  /\ UNCHANGED <<analyzerVars, roundVars, driverVars, pagerVars>>

CallExtractPlayers ==
  /\ helper = ""
  /\ \E pairing_group \in PairingGroups \cup NonMappings :
       CallHelper("_extract_players", pairing_group, _extract_players(pairing_group))

CallExtractScores ==
  /\ helper = ""
  /\ \E player \in PlayerMappings :
       CallHelper("_extract_scores", player, Return(_extract_scores(player)))

CallHasValidScores ==
  /\ helper = ""
  /\ \E scores \in Slices :
       CallHelper("_has_valid_scores", PyList(scores), _has_valid_scores(scores))

HelperNext == CallExtractPlayers \/ CallExtractScores \/ CallHasValidScores

HelperSpec == Init /\ [][HelperNext]_vars

(***************************************************************************)
(* models/round.py: the Round dataclass.  id and name are Python strings,  *)
(* the flag reason is a text as the analyzer returns it.                   *)
(***************************************************************************)
\* A datetime: its calendar fields and its UTC offset in minutes (None for a
\* naive one).
datetime(year, month, day, hour, minute, second, utcoffset) ==
  [t |-> "datetime", year |-> year, month |-> month, day |-> day, hour |-> hour,
   minute |-> minute, second |-> second, utcoffset |-> utcoffset]

\* The number the n characters from position i on write, -1 when they are
\* not n digits.
Number(chars, i, n) ==
  IF i + n - 1 <= Len(chars) /\ \A h \in i..(i + n - 1) : IsDigit(chars[h])
  THEN DigitsValue(SubSeq(chars, i, i + n - 1)) ELSE 0 - 1

DaysIn(year, month) ==
  IF month = 2
  THEN IF year % 4 = 0 /\ (year % 100 # 0 \/ year % 400 = 0) THEN 29 ELSE 28
  ELSE IF month \in {4, 6, 9, 11} THEN 30 ELSE 31

\* The first ten characters are YYYY-MM-DD and name a day of the calendar.
IsDate(chars) ==
  /\ Len(chars) >= 10 /\ chars[5] = "-" /\ chars[8] = "-"
  /\ Number(chars, 1, 4) >= 1
  /\ Number(chars, 6, 2) \in 1..12
  /\ Number(chars, 9, 2) \in 1..DaysIn(Number(chars, 1, 4), Number(chars, 6, 2))

\* datetime.strptime(s, "%Y-%m-%d"), for s of ten characters.
strptime(chars) ==
  IF Len(chars) = 10 /\ IsDate(chars)
  THEN Return(datetime(Number(chars, 1, 4), Number(chars, 6, 2), Number(chars, 9, 2),
                       0, 0, 0, None))
  ELSE Raise("ValueError", "time data does not match format '%Y-%m-%d'")

\* datetime.fromisoformat(s), for the forms YYYY-MM-DDTHH:MM:SS and
\* YYYY-MM-DDTHH:MM:SS+HH:MM (or -HH:MM) and for what is no ISO 8601 text.
fromisoformat(chars) ==
  IF /\ IsDate(chars) /\ Len(chars) \in {19, 25}
     /\ chars[11] = "T" /\ chars[14] = ":" /\ chars[17] = ":"
     /\ Number(chars, 12, 2) \in 0..23
     /\ Number(chars, 15, 2) \in 0..59
     /\ Number(chars, 18, 2) \in 0..59
     /\ Len(chars) = 25 =>
          /\ chars[20] \in {"+", "-"} /\ chars[23] = ":"
          /\ Number(chars, 21, 2) \in 0..23
          /\ Number(chars, 24, 2) \in 0..59
  THEN Return(datetime(Number(chars, 1, 4), Number(chars, 6, 2), Number(chars, 9, 2),
                       Number(chars, 12, 2), Number(chars, 15, 2), Number(chars, 18, 2),
                       IF Len(chars) = 19 THEN None
                       ELSE PyInt((IF chars[20] = "-" THEN 0 - 1 ELSE 1)
                                  * (60 * Number(chars, 21, 2) + Number(chars, 24, 2)))))
  ELSE Raise("ValueError", "Invalid isoformat string")

\* date_str.replace("Z", "+00:00")
RECURSIVE replace(_)
replace(chars) ==
  IF Len(chars) = 0 THEN <<>>
  ELSE (IF Head(chars) = "Z" THEN <<"+", "0", "0", ":", "0", "0">> ELSE <<Head(chars)>>)
         \o replace(Tail(chars))

\* Lines 28-36: the date the text of a field is read as.
ParseDate(date_str) ==
  IF \E i \in 1..Len(date_str) : date_str[i] \in {"T", "+", "Z"}
  THEN fromisoformat(replace(date_str))
  ELSE strptime(SubSeq(date_str, 1, IF Len(date_str) < 10 THEN Len(date_str) ELSE 10))

DateFields == <<"date", "round_date", "start_date", "tee_time">>

\* Lines 25-39 from the k-th date field on: the first field present and
\* truthy whose text parses gives the date.
RECURSIVE RoundDateFrom(_, _)
RoundDateFrom(data, k) ==
  IF k > Len(DateFields) THEN None
  ELSE IF DateFields[k] \in DOMAIN data.v /\ Truthy(data.v[DateFields[k]])
          /\ ~ParseDate(str(data.v[DateFields[k]])).raised
  THEN ParseDate(str(data.v[DateFields[k]])).value
  ELSE RoundDateFrom(data, k + 1)

\* The generated __init__ of the dataclass (lines 12-17).
Round(id, event_id, name, date, is_flagged, flag_reason) ==
  [id |-> id, event_id |-> event_id, name |-> name, date |-> date,
   is_flagged |-> is_flagged, flag_reason |-> flag_reason]

\* Lines 19-48, for data that is a dict.
from_api_response(data, event_id) ==
  Round(PyStr(IF "id" \in DOMAIN data.v THEN str(data.v["id"]) ELSE <<>>),
        event_id,
        PyStr(IF "name" \in DOMAIN data.v THEN str(data.v["name"])
              ELSE IF "round_name" \in DOMAIN data.v THEN str(data.v["round_name"])
              ELSE <<"R", "o", "u", "n", "d">>),
        RoundDateFrom(data, 1), FALSE, "")

\* unflag, were the reason left in place.
unflagKeepingReason(self) == [self EXCEPT !.is_flagged = FALSE]

\* Lines 50-58.
flag(self, reason) == [self EXCEPT !.is_flagged = TRUE, !.flag_reason = reason]
unflag(self) == [self EXCEPT !.is_flagged = FALSE, !.flag_reason = ""]

\* What the rounds endpoint of the API gives for one round: with and without
\* id and name, and with dates in the forms of the tests and in others.
RoundData ==
  { PyDict(ids @@ names @@ dates) :
      ids \in { <<>>, [id |-> PyInt(789)], [id |-> PyStr(<<"r", "1">>)] },
      names \in { <<>>, [name |-> PyStr(<<"R", "o", "u", "n", "d", " ", "2">>)], [round_name |-> PyStr(<<"F", "i", "n", "a", "l">>)],
                  [name |-> None, round_name |-> PyStr(<<"F", "i", "n", "a", "l">>)] },
      dates \in { <<>>,
                  [date |-> PyStr(<<"2", "0", "2", "3", "-", "0", "6", "-", "1", "5", "T", "1", "0", ":", "0", "0", ":", "0", "0", "Z">>)],
                  [date |-> PyStr(<<"2", "0", "2", "3", "-", "0", "6", "-", "1", "5">>)],
                  [date |-> PyStr(<<>>), round_date |-> PyStr(<<"2", "0", "2", "4", "-", "0", "2", "-", "2", "9", "T", "0", "7", ":", "3", "0", ":", "0", "0", "+", "0", "2", ":", "0", "0">>)],
                  [date |-> PyStr(<<"T", "B", "D">>), tee_time |-> PyStr(<<"2", "0", "2", "3", "-", "0", "6", "-", "1", "5", " ", "0", "8", ":", "0", "0">>)],
                  [start_date |-> PyStr(<<"2", "0", "2", "3", "-", "0", "2", "-", "3", "0">>)],
                  [date |-> PyInt(20230615)],
                  [tee_time |-> PyStr(<<"Z", "u", "l", "u">>)] } }

EventId == PyStr(<<"4", "5", "6">>)
FlagReasons == {"Incomplete scoring", "Test reason", ""}

\* Round(id="123", event_id="456", name="Round 1"): the other fields take
\* their defaults (lines 15-17).
CreateRound ==
  /\ last_call.op = ""
  /\ round_obj' = Round(PyStr(<<"1", "2", "3">>), EventId, PyStr(<<"R", "o", "u", "n", "d", " ", "1">>), None, FALSE, "")
  /\ created' = round_obj'
  /\ last_call' = [op |-> "create", reason |-> "", before |-> ""]
  /\ UNCHANGED <<analyzerVars, helperVars, driverVars, pagerVars>>

CreateFromApiResponse ==
  /\ last_call.op = ""
  /\ \E data \in RoundData : round_obj' = from_api_response(data, EventId)
  /\ created' = round_obj'
  /\ last_call' = [op |-> "create", reason |-> "", before |-> ""]
  /\ UNCHANGED <<analyzerVars, helperVars, driverVars, pagerVars>>

Flag ==
  /\ last_call.op # ""
  /\ \E reason \in FlagReasons :
       /\ round_obj' = flag(round_obj, reason)
       /\ last_call' = [op |-> "flag", reason |-> reason, before |-> last_call.op]
  /\ UNCHANGED <<created, analyzerVars, helperVars, driverVars, pagerVars>>

Unflag ==
  /\ last_call.op # ""
  /\ round_obj' = unflag(round_obj)
  /\ last_call' = [op |-> "unflag", reason |-> "", before |-> last_call.op]
  /\ UNCHANGED <<created, analyzerVars, helperVars, driverVars, pagerVars>>

RoundNext == CreateRound \/ CreateFromApiResponse \/ Flag \/ Unflag

RoundSpec == Init /\ [][RoundNext]_vars

(***************************************************************************)
(* TGAScoringAudit._analyze_scoring: the driver loop over the rounds, with *)
(* GolfGeniusAPI.get_tee_sheet as the source of the tee sheets.            *)
(***************************************************************************)
MaxRounds == 2

\* An f-string's interpolation of a str: its characters as one text.
RECURSIVE Joined(_)
Joined(chars) == IF chars = <<>> THEN "" ELSE chars[1] \o Joined(Tail(chars))

TeeSheetKeys == <<"tee_sheet", "pairing_groups", "data", "groups">>

\* golf_genius.py lines 217-222: the first key that holds a list, else the
\* mapping itself wrapped in a list (nothing for an empty mapping).
RECURSIVE TeeSheetFrom(_, _)
TeeSheetFrom(response, k) ==
  IF k > Len(TeeSheetKeys) THEN IF Truthy(response) THEN PyList(<<response>>) ELSE PyList(<<>>)
  ELSE IF TeeSheetKeys[k] \in DOMAIN response.v /\ isinstance(response.v[TeeSheetKeys[k]], "list")
  THEN response.v[TeeSheetKeys[k]]
  ELSE TeeSheetFrom(response, k + 1)

\* golf_genius.py lines 198-234, given what _build_url and client.get did.
get_tee_sheet(url, response, round_id) ==
  IF url.raised THEN url
  ELSE IF response.raised
  THEN IF response.type \in {"AuthenticationError", "ValidationError"} THEN response
       ELSE Raise("ValidationError", "Failed to fetch tee sheet for round " \o Joined(round_id.v)
                                     \o ": " \o response.msg)
  ELSE IF isinstance(response.value, "list") THEN Return(response.value)
  ELSE IF isinstance(response.value, "dict") THEN Return(TeeSheetFrom(response.value, 1))
  ELSE Return(PyList(<<>>))

\* What client.get answers or raises (client.py lines 59-99).
Responses ==
  { Return(PyList(<<>>)),
    Return(PyList(<<Players(<<CompletePlayer>>)>>)),
    Return(PyList(<<Players(<<FrontOnlyPlayer>>)>>)),
    Return(PyList(<<Players(<<InfinityPlayer>>)>>)),
    Return(PyDict([tee_sheet |-> PyList(<<Players(<<CompletePlayer>>)>>)])),
    Return(PyDict([tee_sheet |-> None, groups |-> PyList(<<Players(<<NoScoresPlayer>>)>>)])),
    Return(Players(<<CompletePlayer>>)),
    Return(EmptyDict),
    Return(None),
    Raise("AuthenticationError", "Invalid API key or authentication failed"),
    Raise("RateLimitError", "API rate limit exceeded"),
    Raise("APIError", "Connection error - check internet connection") }

\* One fetch: what _build_url did (config.py lines 24-35), then the client.
Fetches ==
  { [url |-> Raise("ValueError", "API key not set. Use set_api_key() or set GOLF_GENIUS_API_KEY environment variable."),
     response |-> Return(None)] }
  \cup { [url |-> Return(None), response |-> r] : r \in Responses }

\* The rounds _collect_rounds hands over (main.py lines 135-157).
InputRounds ==
  { from_api_response(PyDict([id |-> PyStr(<<"r", "1">>), name |-> PyStr(<<"R", "o", "u", "n", "d", " ", "2">>)]), EventId),
    from_api_response(PyDict([id |-> PyInt(789), round_name |-> PyStr(<<"F", "i", "n", "a", "l">>),
                              date |-> PyStr(<<"2", "0", "2", "3", "-", "0", "6", "-", "1", "5">>)]), EventId) }

\* `except Exception` of line 215, were it `except ValidationError`.
CaughtByDriverValidationOnly(exc) == exc.type = "ValidationError"

\* `except Exception` of line 215: the classes the clause catches.
CaughtByDriver(exc) ==
  exc.type \in ExceptionClasses \cup {"APIError", "AuthenticationError", "RateLimitError", "ValidationError"}

\* Lines 201-208: the fetch and the analysis of one round.
AnalyzeRoundOutcome(fetch, round) ==
  IF get_tee_sheet(fetch.url, fetch.response, round.id).raised
  THEN get_tee_sheet(fetch.url, fetch.response, round.id)
  ELSE analyze_round_scoring(get_tee_sheet(fetch.url, fetch.response, round.id).value)

\* Lines 210-219: the round after its turn.
RoundAfter(round, result) ==
  IF result.raised THEN flag(round, "Unable to retrieve scoring data: " \o result.msg)
  ELSE IF result.value.is_flagged THEN flag(round, result.value.reason)
  ELSE round

\* RecordRound, were every round put on the list.
RecordRoundListingAll(fetch, result) ==
  /\ tee_sheets' = Append(tee_sheets, fetch)
  /\ rounds' = [rounds EXCEPT ![round_i] = RoundAfter(@, result)]
  /\ flagged_rounds' = Append(flagged_rounds, round_i)
  /\ round_i' = round_i + 1
  /\ UNCHANGED driver_pc

\* Lines 210-220: one turn of the loop, given its result.
RecordRound(fetch, result) ==
  /\ tee_sheets' = Append(tee_sheets, fetch)
  /\ IF result.raised /\ ~CaughtByDriver(ExceptionOf(result))
     THEN /\ driver_pc' = "raised"
          /\ UNCHANGED <<rounds, round_i, flagged_rounds>>
     ELSE /\ rounds' = [rounds EXCEPT ![round_i] = RoundAfter(@, result)]
          /\ flagged_rounds' = IF RoundAfter(rounds[round_i], result).is_flagged
                               THEN Append(flagged_rounds, round_i) ELSE flagged_rounds
          /\ round_i' = round_i + 1
          /\ UNCHANGED driver_pc

\* Lines 189-195: the call, with the rounds it is given.
CallAnalyzeScoring ==
  /\ driver_pc = "idle"
  /\ \E a \in BOOLEAN, n \in 0..MaxRounds :
       \E given \in [1..n -> InputRounds] :
         /\ api' = a
         /\ rounds' = given
         /\ driver_pc' = IF a THEN "loop" ELSE "raised"
         /\ round_i' = 1
         /\ flagged_rounds' = <<>>
         /\ tee_sheets' = <<>>
  /\ UNCHANGED <<analyzerVars, helperVars, roundVars, pagerVars>>

\* Lines 197-220: the turn of the next round.
AnalyzeRound ==
  /\ driver_pc = "loop"
  /\ round_i <= Len(rounds)
  /\ \E fetch \in Fetches : RecordRound(fetch, AnalyzeRoundOutcome(fetch, rounds[round_i]))
  /\ UNCHANGED <<api, analyzerVars, helperVars, roundVars, pagerVars>>

\* Line 222.
ReturnFlagged ==
  /\ driver_pc = "loop"
  /\ round_i > Len(rounds)
  /\ driver_pc' = "returned"
  /\ UNCHANGED <<api, tee_sheets, rounds, round_i, flagged_rounds>>
  /\ UNCHANGED <<analyzerVars, helperVars, roundVars, pagerVars>>

DriverNext == CallAnalyzeScoring \/ AnalyzeRound \/ ReturnFlagged

DriverSpec == Init /\ [][DriverNext]_vars

(***************************************************************************)
(* The two public methods called once each on a tee sheet, for the         *)
(* properties that compare the results for related tee sheets.             *)
(***************************************************************************)
MaxSheet == 2

\* Players with 9 scores, and with more than 18: the entries from index 18
\* on hold valid scores and a float infinity, the first 18 only a front
\* nine, a full round, or nothing.
NinePlayer == PlayerWith(FrontNine)
LongFrontPlayer == PlayerWith(FrontNine \o Rep(None, 9) \o <<PyInt(4), PyInf>>)
LongCompletePlayer == PlayerWith(FrontNine \o BackNine \o <<PyStr(<<"X">>)>>)
LongNoScoresPlayer == PlayerWith(Rep(None, 18) \o FrontNine)

SheetEntries ==
  { Players(<<CompletePlayer>>),
    Players(<<FrontOnlyPlayer>>),
    Players(<<BackOnlyPlayer>>),
    Players(<<NoScoresPlayer, None>>),
    Players(<<FrontOnlyPlayer, PyInt(7), BackOnlyPlayer>>),
    Players(<<NinePlayer, ShortPlayer>>),
    Players(<<LongFrontPlayer>>),
    Players(<<LongNoScoresPlayer, LongCompletePlayer>>),
    Players(<<InfinityPlayer>>),
    PyDict([pairing_group |-> Players(<<BackOnlyPlayer>>)]),
    FrontOnlyPlayer,
    None,
    PyStr(Chars["players"]),
    PyList(<<CompletePlayer>>) }

Sheets == { PyList(entries) : entries \in UNION { [1..n -> SheetEntries] : n \in 0..MaxSheet } }

CallAnalyzeRoundScoring ==
  /\ helper = ""
  /\ \E sheet \in Sheets :
       CallHelper("analyze_round_scoring", sheet, analyze_round_scoring(sheet))

CallGetDetailedAnalysis ==
  /\ helper = ""
  /\ \E sheet \in Sheets :
       CallHelper("get_detailed_analysis", sheet, get_detailed_analysis(sheet))

FunctionNext == CallAnalyzeRoundScoring \/ CallGetDetailedAnalysis

FunctionSpec == Init /\ [][FunctionNext]_vars

(***************************************************************************)
(* GolfGeniusAPI.get_events and get_all_events (api/golf_genius.py lines   *)
(* 69-159): the pages of a season's events.                                *)
(***************************************************************************)
\* Line 146: the page number past which the loop is left (`if page > 1000`).
PageLimit == 1000

\* The pages whose answer is drawn from every shape.
MaxVaried == 1

\* `', '.join(fields)`.
RECURSIVE JoinedWithCommas(_)
JoinedWithCommas(fields) ==
  IF fields = <<>> THEN ""
  ELSE IF Len(fields) = 1 THEN fields[1]
  ELSE fields[1] \o ", " \o JoinedWithCommas(Tail(fields))

\* client.py lines 101-112.
validate_response(data, required_fields) ==
  IF ~isinstance(data, "dict") THEN Raise("ValidationError", "Response is not a dictionary")
  ELSE LET missing_fields == SelectSeq(required_fields, LAMBDA field : field \notin DOMAIN data.v)
       IN IF missing_fields # <<>>
          THEN Raise("ValidationError", "Missing required fields: " \o JoinedWithCommas(missing_fields))
          ELSE Return(None)

\* Lines 95-101: the events of a list response.
RECURSIVE EventsOfList(_, _)
EventsOfList(response, i) ==
  IF i > Len(response) THEN <<>>
  ELSE IF isinstance(response[i], "dict") /\ "event" \in DOMAIN response[i].v
  THEN <<response[i].v["event"]>> \o EventsOfList(response, i + 1)
  ELSE IF isinstance(response[i], "dict") THEN <<response[i]>> \o EventsOfList(response, i + 1)
  ELSE EventsOfList(response, i + 1)

\* Lines 93-111: the result built from what the client answered.
ResultOfResponse(response) ==
  IF isinstance(response, "list") THEN PyDict([events |-> PyList(EventsOfList(response.v, 1))])
  ELSE IF isinstance(response, "dict")
  THEN PyDict([k \in DOMAIN response.v \cup {"events"} |->
                 IF k \in DOMAIN response.v THEN response.v[k] ELSE PyList(<<>>)])
  ELSE PyDict([events |-> PyList(<<>>)])

\* Lines 114-116: the first event that fails validation ends the loop.
RECURSIVE ValidatedFrom(_, _)
ValidatedFrom(events, i) ==
  IF i > Len(events) THEN Return(None)
  ELSE IF isinstance(events[i], "dict") /\ validate_response(events[i], <<"id", "name">>).raised
  THEN validate_response(events[i], <<"id", "name">>)
  ELSE ValidatedFrom(events, i + 1)

\* Lines 114-116: `for event in result.get("events", [])`.
Validated(result) ==
  IF Iterate(result.v["events"]).raised THEN Iterate(result.v["events"])
  ELSE ValidatedFrom(Iterate(result.v["events"]).value, 1)

\* Lines 120-123: the except clause of get_events.
Reraised(exc) ==
  IF exc.type \in {"AuthenticationError", "ValidationError"} THEN exc
  ELSE Raise("ValidationError", "Failed to fetch events: " \o exc.msg)

\* get_events (lines 69-123), given what _build_url and client.get did.
get_events(url, response) ==
  IF url.raised THEN url
  ELSE IF response.raised THEN Reraised(response)
  ELSE IF Validated(ResultOfResponse(response.value)).raised
  THEN Reraised(Validated(ResultOfResponse(response.value)))
  ELSE Return(ResultOfResponse(response.value))

\* An event of page p as the provider sends it.
Event(p) == PyDict([id |-> PyInt(p), name |-> PyStr(<<"O", "p", "e", "n">>)])

\* What client.get answers or raises for page p (client.py lines 59-99). A
\* page past MaxVaried holds one event that the provider sends as its bare
\* number, or is empty, or fails.
PageResponses(p) ==
  { Return(PyList(<<PyDict([event |-> PyInt(p)])>>)),
    Return(PyList(<<>>)),
    Raise("APIError", "Connection error - check internet connection") }
  \cup IF p > MaxVaried THEN {}
       ELSE { Return(PyList(<<PyDict([event |-> Event(p)]), PyStr(<<"x">>),
                                Event(p + PageLimit), PyDict([event |-> None])>>)),
              Return(PyDict([events |-> PyList(<<Event(p), Event(p + PageLimit)>>)])),
              Return(PyDict([events |-> PyStr(<<"a", "b">>)])),
              Return(PyDict([events |-> PyList(<<PyDict([id |-> PyInt(p)])>>)])),
              Return(PyDict([events |-> None])),
              Return(PyDict([events |-> PyInt(0)])),
              Return(PyDict([total |-> PyInt(0)])),
              Return(EmptyDict),
              Return(None),
              Return(PyStr(<<"o", "k">>)),
              Raise("AuthenticationError", "Invalid API key or authentication failed"),
              Raise("RateLimitError", "API rate limit exceeded") }

\* One fetch of page p: what _build_url did (config.py lines 24-35), then the client.
PageFetches(p) ==
  { [url |-> Return(None), response |-> r] : r \in PageResponses(p) }
  \cup IF p > MaxVaried THEN {}
       ELSE { [url |-> Raise("ValueError", "API key not set. Use set_api_key() or set GOLF_GENIUS_API_KEY environment variable."),
               response |-> Return(None)] }

\* Lines 127-128: the call of get_all_events.
CallGetAllEvents ==
  /\ pager_pc = "idle"
  /\ all_events' = <<>>
  /\ page' = 1
  /\ requested' = <<>>
  /\ last_answer' = Return(None)
  /\ pager_pc' = "loop"
  /\ UNCHANGED <<analyzerVars, helperVars, roundVars, driverVars>>

\* Lines 150-156, were the events collected so far dropped with the failure.
AfterFailureDropping(collected) == <<>>

\* Lines 150-156: both except clauses leave the loop and nothing else.
AfterFailure(collected) == collected

\* Lines 131-156: one turn of the loop, given what get_events did at line 132.
TurnWith(response) ==
  /\ last_answer' = response
  /\ requested' = Append(requested, page)
  /\ IF response.raised
     THEN /\ all_events' = AfterFailure(all_events)
          /\ page' = page
          /\ pager_pc' = "stopped"
     ELSE LET events == response.value.v["events"]
          IN IF ~Truthy(events)
             THEN /\ pager_pc' = "stopped"
                  /\ UNCHANGED <<all_events, page>>
             ELSE /\ all_events' = all_events \o Iterate(events).value
                  /\ page' = page + 1
                  /\ pager_pc' = IF page + 1 > PageLimit THEN "stopped" ELSE "loop"

\* Lines 130-156: one turn of `while True`.
FetchPage ==
  /\ pager_pc = "loop"
  /\ \E fetch \in PageFetches(page) : TurnWith(get_events(fetch.url, fetch.response))
  /\ UNCHANGED <<analyzerVars, helperVars, roundVars, driverVars>>

\* Lines 158-159.
ReturnEvents ==
  /\ pager_pc = "stopped"
  /\ pager_pc' = "returned"
  /\ UNCHANGED <<page, all_events, requested, last_answer>>
  /\ UNCHANGED <<analyzerVars, helperVars, roundVars, driverVars>>

PagesNext == CallGetAllEvents \/ FetchPage \/ ReturnEvents

\* The call is one sequential thread that takes its next step whenever it
\* has one: main.py line 132 calls and waits, and client.get ends by its
\* timeout and its bounded retries (client.py lines 46-67).
PagesSpec == Init /\ [][PagesNext]_vars /\ WF_vars(PagesNext)

(***************************************************************************)
(* Vocabulary of the properties.                                           *)
(***************************************************************************)
\* analyze_round_scoring has returned (to its caller or to get_detailed_analysis).
AnalyzeReturned ==
  \/ pc = "done" /\ entry = "analyze_round_scoring"
  \/ pc = "detailed.return"

\* get_detailed_analysis has returned.
DetailedReturned == pc = "done" /\ entry = "get_detailed_analysis"

\* The pass met no exception.
NoError == e = NoException

\* The payload is the empty sequence or null.
EmptyOrAbsent(x) == x.t = "NoneType" \/ (x.t = "list" /\ Len(x.v) = 0)

\* x is a list of n values that are all integers in 1..15 / all null.
Plausible(seq) == \A i \in 1..Len(seq) : seq[i].t = "int" /\ seq[i].v \in 1..15
AllNull(seq) == \A i \in 1..Len(seq) : seq[i].t = "NoneType"

\* x is a player record whose "scores" is a list of 18 entries.
HasEighteen(x) ==
  /\ x.t = "dict"
  /\ DOMAIN x.v = {"name", "scores"}
  /\ x.v["scores"].t = "list"
  /\ Len(x.v["scores"].v) = 18

Front(x) == SubSeq(x.v["scores"].v, 1, 9)
Back(x) == SubSeq(x.v["scores"].v, 10, 18)

\* x is {"players": [...]} with a list of n entries.
PlayersEntry(x, n) ==
  /\ x.t = "dict"
  /\ DOMAIN x.v = {"players"}
  /\ x.v["players"].t = "list"
  /\ Len(x.v["players"].v) = n

\* The tee sheet is [{"players": [p]}] for a player p with 18 scores.
SinglePlayerSheet(x) ==
  /\ x.t = "list"
  /\ Len(x.v) = 1
  /\ PlayersEntry(x.v[1], 1)
  /\ HasEighteen(x.v[1].v["players"].v[1])

OnlyPlayer(x) == x.v[1].v["players"].v[1]

\* The tee sheet holds, in some {"players": [...]} entry, a player with 18
\* plausible scores.
HasCompletePlayer(x) ==
  /\ x.t = "list"
  /\ \E i \in 1..Len(x.v) :
       /\ x.v[i].t = "dict"
       /\ DOMAIN x.v[i].v = {"players"}
       /\ x.v[i].v["players"].t = "list"
       /\ \E j \in 1..Len(x.v[i].v["players"].v) :
            LET p == x.v[i].v["players"].v[j]
            IN HasEighteen(p) /\ Plausible(p.v["scores"].v)

\* The most players a payload of the model holds.
MostPlayers == 3 * (MaxItems + 1)

\* reason is "Complete scoring detected: F9=<n>, B9=<m> players".
IsCompleteScoring(reason) ==
  \E n, m \in 0..MostPlayers :
    reason = "Complete scoring detected: F9=" \o format(n) \o ", B9=" \o format(m) \o " players"

\* reason is "Only front 9 scores found (<n>/<total> players)", and for the back.
IsOnlyFront(reason) ==
  \E n, total \in 0..MostPlayers :
    reason = "Only front 9 scores found (" \o format(n) \o "/" \o format(total) \o " players)"

IsOnlyBack(reason) ==
  \E m, total \in 0..MostPlayers :
    reason = "Only back 9 scores found (" \o format(m) \o "/" \o format(total) \o " players)"

\* The mapping player records of the payload, by position: entry i is a
\* mapping and the j-th player extracted from it is a mapping.
PlayerRecords(x) ==
  LET entries == Iterate(x).value
  IN UNION { { <<i, j>> : j \in { k \in 1..Len(PlayersOfItem(entries[i]).value) :
                                    PlayersOfItem(entries[i]).value[k].t = "dict" } } :
             i \in { k \in 1..Len(entries) : entries[k].t = "dict" } }

PlayerAt(x, pos) == PlayersOfItem(Iterate(x).value[pos[1]]).value[pos[2]]

FrontValid(player) ==
  /\ Len(_extract_scores(player)) >= 18
  /\ _has_valid_scores(SubSeq(_extract_scores(player), 1, 9)).value

BackValid(player) ==
  /\ Len(_extract_scores(player)) >= 18
  /\ _has_valid_scores(SubSeq(_extract_scores(player), 10, 18)).value

(***************************************************************************)
(* Properties of analyze_round_scoring and get_detailed_analysis.          *)
(***************************************************************************)

C2_CompleteUnflagged ==
  (AnalyzeReturned /\ NoError /\ HasCompletePlayer(tee_sheet_data))
    => (~verdict.is_flagged /\ IsCompleteScoring(verdict.reason))

\* C3 (as claimed): a tee sheet whose only player has valid scores on
\* exactly one half and null on the other is flagged, with the reason naming
\* the populated half.
C3_OneHalfFlagged ==
  (AnalyzeReturned /\ SinglePlayerSheet(tee_sheet_data))
    => /\ (Plausible(Front(OnlyPlayer(tee_sheet_data)))
             /\ AllNull(Back(OnlyPlayer(tee_sheet_data))))
            => (verdict.is_flagged /\ IsOnlyFront(verdict.reason))
       /\ (AllNull(Front(OnlyPlayer(tee_sheet_data)))
             /\ Plausible(Back(OnlyPlayer(tee_sheet_data))))
            => (verdict.is_flagged /\ IsOnlyBack(verdict.reason))

\* C4 (as claimed): a tee sheet whose only player has 18 null scores is
\* flagged with the reason "No scores found on either front or back 9".
C4_NoScoresFlagged ==
  (AnalyzeReturned /\ SinglePlayerSheet(tee_sheet_data)
     /\ AllNull(OnlyPlayer(tee_sheet_data).v["scores"].v))
    => (verdict.is_flagged /\ verdict.reason = "No scores found on either front or back 9")

\* C5: for an empty or absent payload analyze_round_scoring returns
\* (true, "No tee sheet data available") without starting the traversal,
\* and get_detailed_analysis returns the record with five zero counts,
\* is_flagged true and the same reason.
C5_EmptyInput ==
  EmptyOrAbsent(tee_sheet_data) =>
    /\ AnalyzeReturned =>
         /\ verdict = [is_flagged |-> TRUE, reason |-> "No tee sheet data available"]
         /\ item_i = 0 /\ items = <<>> /\ analyze = AnalyzeLocals
    /\ DetailedReturned =>
         /\ analysis = [total_players |-> 0, front_9_players |-> 0, back_9_players |-> 0,
                        complete_players |-> 0, incomplete_players |-> 0,
                        is_flagged |-> TRUE, flag_reason |-> "No tee sheet data available"]
         /\ item_i = 0 /\ items = <<>>

\* get_detailed_analysis has returned for the absent (null) payload.
C5_Witness ==
  /\ DetailedReturned
  /\ tee_sheet_data.t = "NoneType"
  /\ analysis.is_flagged

\* No call has ended in a propagated exception; a finished call has returned
\* a (bool, string) verdict or the seven-field record.
ReturnsOnly ==
  /\ pc # "raised"
  /\ (pc = "done" /\ entry = "analyze_round_scoring")
       => (verdict.is_flagged \in BOOLEAN /\ verdict.reason # "")
  /\ DetailedReturned
       => /\ DOMAIN analysis = {"total_players", "front_9_players", "back_9_players",
                                "complete_players", "incomplete_players",
                                "is_flagged", "flag_reason"}
          /\ analysis.is_flagged \in BOOLEAN
          /\ analysis.flag_reason # ""

\* A call is under way.
Running == pc \notin {"idle", "done", "raised"}

\* How far a call is from its end: the statements still ahead, then the
\* entries the outer loop has left, then (inside an entry) the players the
\* inner loop has left.
Phase ==
  CASE pc = "detailed.start" -> 8
    [] pc \in {"detailed.for_item", "detailed.for_player"} -> 7
    [] pc \in {"detailed.call", "detailed.except"} -> 6
    [] pc = "analyze.start" -> 5
    [] pc \in {"analyze.for_item", "analyze.for_player"} -> 4
    [] pc \in {"analyze.decide", "analyze.except"} -> 3
    [] pc = "detailed.return" -> 2
    [] OTHER -> 1

InLoop == pc \in {"analyze.for_item", "analyze.for_player",
                  "detailed.for_item", "detailed.for_player"}
InPlayers == pc \in {"analyze.for_player", "detailed.for_player"}

Rank ==
  << Phase,
     IF InLoop THEN Len(items) + 1 - item_i ELSE 0,
     IF InLoop /\ ~InPlayers THEN 1 ELSE 0,
     IF InPlayers THEN Len(players) + 1 - player_j ELSE 0 >>

\* The lexicographic order of ranks, which are tuples of four naturals.
Below(a, b) ==
  \E k \in 1..4 : a[k] < b[k] /\ \A h \in 1..(k - 1) : a[h] = b[h]

\* C6: the two entry points are total.  No call ends in a propagated
\* exception and what a finished call returned is a (bool, string) verdict
\* or the seven-field record; a call under way can always take its next
\* step, and every step brings it closer to its end (the rank, a tuple of
\* naturals, decreases), so every call ends.
C6_Total ==
  /\ [](ReturnsOnly /\ (Running => ENABLED Run))
  /\ [](\A k \in 1..4 : Rank[k] \in Nat)
  /\ [][Run => Below(Rank', Rank)]_vars

\* A call has returned although a step of its traversal raised an exception
\* that is neither a TypeError nor a ValueError.
C6_Witness ==
  /\ pc = "done"
  /\ e.type = "OverflowError"

\* C7: when a step of the traversal raised, analyze_round_scoring returns
\* (true, "Error analyzing scores: <message>"), whatever was counted before.
C7_ErrorFlagged ==
  (AnalyzeReturned /\ ~NoError)
    => verdict = [is_flagged |-> TRUE, reason |-> "Error analyzing scores: " \o e.msg]

\* The pass was aborted at its second entry after the first had counted a
\* player with front-9 scores only (unflagged on its own), and is flagged.
C7_Witness ==
  /\ AnalyzeReturned /\ ~NoError
  /\ item_i = 2
  /\ analyze.total_players = 1
  /\ analyze.total_front_9_scores = 1
  /\ analyze.total_back_9_scores = 0
  /\ ~Decide(analyze.total_players, analyze.total_front_9_scores,
             analyze.total_back_9_scores).is_flagged
  /\ verdict.is_flagged

\* C8: a non-empty tee sheet traversed without exception in which no mapping
\* player is found is returned as (false, "No players found in tee sheet"),
\* whereas the empty tee sheet is flagged.
C8_NoPlayersUnflagged ==
  /\ (AnalyzeReturned /\ Truthy(tee_sheet_data) /\ NoError
        /\ PlayerRecords(tee_sheet_data) = {})
       => verdict = [is_flagged |-> FALSE, reason |-> "No players found in tee sheet"]
  /\ (AnalyzeReturned /\ tee_sheet_data.t = "list" /\ Len(tee_sheet_data.v) = 0)
       => verdict.is_flagged

\* A tee sheet of two entries, none of which yields a mapping player.
C8_Witness ==
  /\ AnalyzeReturned /\ NoError
  /\ tee_sheet_data.t = "list"
  /\ Len(tee_sheet_data.v) = 2
  /\ analyze.total_players = 0
  /\ ~verdict.is_flagged

\* C9: the record get_detailed_analysis returns has
\* incomplete_players = total_players - complete_players.
C9_IncompleteIsDifference ==
  DetailedReturned
    => analysis.incomplete_players = analysis.total_players - analysis.complete_players

\* A record with complete and incomplete players, and with more players with
\* front-9 scores than complete players.
C9_Witness ==
  /\ DetailedReturned
  /\ analysis.complete_players >= 1
  /\ analysis.incomplete_players >= 1
  /\ analysis.front_9_players > analysis.complete_players

\* The tee sheet of test_get_detailed_analysis: one entry with two players,
\* one with 18 plausible scores and one with plausible scores on the front
\* nine only.
IsTwoPlayerExample(x) ==
  /\ x.t = "list"
  /\ Len(x.v) = 1
  /\ PlayersEntry(x.v[1], 2)
  /\ HasEighteen(x.v[1].v["players"].v[1])
  /\ HasEighteen(x.v[1].v["players"].v[2])
  /\ Plausible(x.v[1].v["players"].v[1].v["scores"].v)
  /\ Plausible(Front(x.v[1].v["players"].v[2]))
  /\ AllNull(Back(x.v[1].v["players"].v[2]))

\* C10: after a traversal without exception, total_players is the number of
\* mapping player records, front_9_players (back_9_players) the number of
\* them with at least 18 scores whose entries 0-8 (9-17) are valid, and
\* complete_players the number of them whose both halves are valid; the
\* two-player example gives 2, 1, 1, 2, 1.
C10_PerPlayerCounts ==
  (DetailedReturned /\ Truthy(tee_sheet_data) /\ NoError)
    => LET found == PlayerRecords(tee_sheet_data)
           at(pos) == PlayerAt(tee_sheet_data, pos)
       IN /\ analysis.total_players = Cardinality(found)
          /\ analysis.front_9_players =
               Cardinality({pos \in found : FrontValid(at(pos))})
          /\ analysis.back_9_players =
               Cardinality({pos \in found : BackValid(at(pos))})
          /\ analysis.complete_players =
               Cardinality({pos \in found : FrontValid(at(pos)) /\ BackValid(at(pos))})
          /\ IsTwoPlayerExample(tee_sheet_data)
               => /\ analysis.total_players = 2
                  /\ analysis.complete_players = 1
                  /\ analysis.incomplete_players = 1
                  /\ analysis.front_9_players = 2
                  /\ analysis.back_9_players = 1

\* get_detailed_analysis has returned for the two-player example.
C10_Witness ==
  /\ DetailedReturned /\ NoError
  /\ IsTwoPlayerExample(tee_sheet_data)
  /\ analysis.total_players = 2

\* C11: the is_flagged and flag_reason of the record get_detailed_analysis
\* returns are the pair analyze_round_scoring returns for the same payload,
\* also for the empty payload and when the traversal raised; and after a
\* traversal without exception front_9_players and back_9_players are the
\* round-level counts analyze_round_scoring decides on and reports.
C11_DetailedAgrees ==
  DetailedReturned =>
    /\ Return([is_flagged |-> analysis.is_flagged, reason |-> analysis.flag_reason])
         = analyze_round_scoring(tee_sheet_data)
    /\ (NoError /\ Truthy(tee_sheet_data)) =>
         /\ analysis.front_9_players = analyze.total_front_9_scores
         /\ analysis.back_9_players = analyze.total_back_9_scores
         /\ analysis.front_9_players = AnalyzePass(tee_sheet_data).loc.total_front_9_scores
         /\ analysis.back_9_players = AnalyzePass(tee_sheet_data).loc.total_back_9_scores
         /\ IsCompleteScoring(analysis.flag_reason) =>
              analysis.flag_reason =
                "Complete scoring detected: F9=" \o format(analysis.front_9_players)
                  \o ", B9=" \o format(analysis.back_9_players) \o " players"

\* get_detailed_analysis has returned the zero record after its own
\* traversal had counted a player and then raised.
C11_Witness ==
  /\ DetailedReturned /\ ~NoError
  /\ detailed.total_players >= 1
  /\ analysis.total_players = 0
  /\ analysis.is_flagged

\* C12: analyze_round_scoring is deterministic and stateless.  Whatever
\* calls of either method the analyzer has served before, a call returns
\* what a first call on a fresh analyzer returns for the same payload, and
\* no step of a call changes the payload.
C12_Stateless ==
  /\ [](AnalyzeReturned => Return(verdict) = analyze_round_scoring(tee_sheet_data))
  /\ [][Run => tee_sheet_data' = tee_sheet_data]_vars

\* A call of analyze_round_scoring made when the counters still showed the
\* complete scoring of an earlier call has returned for a tee sheet with
\* front-nine scores only, unflagged.
C12_Witness ==
  /\ pc = "done" /\ entry = "analyze_round_scoring"
  /\ earlier.total_front_9_scores >= 1
  /\ earlier.total_back_9_scores >= 1
  /\ analyze.total_players = 1
  /\ analyze.total_front_9_scores = 1
  /\ analyze.total_back_9_scores = 0
  /\ ~verdict.is_flagged

(***************************************************************************)
(* Properties of the helpers called on their own.                          *)
(***************************************************************************)
\* The helper has been called and this is its argument.
Called(name) == helper = name

\* The value alone, as a slice of one element, is valid.
Qualifies(score) == _has_valid_scores(<<score>>) = Return(TRUE)

\* The values line 134 skips: null, "", 0 and {}.
IsSentinel(score) ==
  \/ score = None
  \/ score = PyStr(<<>>)
  \/ score = PyInt(0)
  \/ score = EmptyDict

\* C13 (as claimed): _has_valid_scores is true of a slice exactly when at
\* least one of its elements qualifies on its own, wherever the element
\* stands and however long the slice is, and false otherwise; so the empty
\* slice and a slice of nulls, "", 0 and {} are invalid, and a slice with an
\* integer in 1..15 is valid whatever its other elements are.
C13_ValidIffSomeElement ==
  Called("_has_valid_scores") =>
    /\ (outcome = Return(TRUE)) <=> (\E i \in 1..Len(argument.v) : Qualifies(argument.v[i]))
    /\ (\A i \in 1..Len(argument.v) : IsSentinel(argument.v[i])) => outcome = Return(FALSE)
    /\ (\E i \in 1..Len(argument.v) :
          argument.v[i].t = "int" /\ argument.v[i].v \in 1..15) => outcome = Return(TRUE)

\* The alias keys in the order _extract_players tries them, and those of
\* them under which the mapping holds a sequence or a mapping.
AliasOrder == <<"players", "player", "pairing", "members">>
Present(group) == { k \in 1..4 : AliasOrder[k] \in DOMAIN group.v }
Matching(group) ==
  { k \in Present(group) : group.v[AliasOrder[k]].t \in {"list", "dict"} }
Least(S) == CHOOSE k \in S : \A h \in S : k <= h

\* C14: when an alias key of the pairing group matches, _extract_players
\* returns the value under it as it is if the value is a sequence (the same
\* elements in the same order, whatever their number), and the one-element
\* sequence of the value if it is a single mapping; {"player": {"name": X}}
\* yields exactly that one record.
C14_MatchedValueReturned ==
  (Called("_extract_players") /\ argument.t = "dict") =>
    /\ Matching(argument) # {} =>
         outcome = Return(IF argument.v[AliasOrder[Least(Matching(argument))]].t = "list"
                          THEN argument.v[AliasOrder[Least(Matching(argument))]].v
                          ELSE <<argument.v[AliasOrder[Least(Matching(argument))]]>>)
    /\ (DOMAIN argument.v = {"player"} /\ argument.v["player"].t = "dict") =>
         (~outcome.raised /\ Len(outcome.value) = 1 /\ outcome.value[1] = argument.v["player"])

\* The call on {"player": {"name": "Test"}} has returned the one record.
C14_Witness ==
  /\ Called("_extract_players")
  /\ argument = PyDict([player |-> PyDict([name |-> TestName])])
  /\ outcome = Return(<<PyDict([name |-> TestName])>>)

\* The score keys in the order _extract_scores tries them, and those of them
\* under which the player record holds a sequence.
ScoreOrder == <<"score_array", "scores", "score", "holes", "hole_scores">>
HoldingList(player) ==
  { k \in 1..5 : ScoreOrder[k] \in DOMAIN player.v /\ player.v[ScoreOrder[k]].t = "list" }

\* C15: _extract_scores returns the value of the first of score_array,
\* scores, score, holes, hole_scores that is present and holds a sequence;
\* a key holding something else is passed over; when there is none, as for
\* {"name": X}, it returns the empty sequence.
C15_FirstListReturned ==
  Called("_extract_scores") =>
    /\ outcome = Return(IF HoldingList(argument) = {} THEN <<>>
                        ELSE argument.v[ScoreOrder[Least(HoldingList(argument))]].v)
    /\ DOMAIN argument.v = {"name"} => outcome = Return(<<>>)

\* score_array holds a number and is passed over; the list under holes is
\* returned.
C15_Witness ==
  /\ Called("_extract_scores")
  /\ DOMAIN argument.v = {"name", "score_array", "holes"}
  /\ argument.v["score_array"] = PyInt(72)
  /\ argument.v["holes"] = PyList(<<PyInt(4), None>>)
  /\ outcome = Return(<<PyInt(4), None>>)

\* The mapping with only those of its keys that are in keep.
Only(group, keep) == PyDict([key \in DOMAIN group.v \cap keep |-> group.v[key]])

\* C18 (as claimed): the first of players, player, pairing, members that is
\* present alone determines what _extract_players returns, whatever it holds
\* (sequence, mapping, null, scalar): the result is the one for the mapping
\* with that key alone, so no later alias key and no name or scores key of
\* the mapping has a part in it.
C18_FirstPresentKeyDecides ==
  (Called("_extract_players") /\ argument.t = "dict" /\ Present(argument) # {}) =>
    outcome = _extract_players(Only(argument, {AliasOrder[Least(Present(argument))]}))

\* C18 (amended): the keys are examined in the order players, player,
\* pairing, members, and the first one present that holds a sequence or a
\* mapping alone determines the result.  A key present with null or a scalar
\* is passed over: it has no part in the result, and when no alias key holds
\* a sequence or a mapping the result is the one of the name/scores
\* fallback (the mapping itself if it has one of the two keys, else
\* nothing).  Results are never merged.
C18_FirstMatchingKeyDecides ==
  (Called("_extract_players") /\ argument.t = "dict") =>
    IF Matching(argument) # {}
    THEN outcome = _extract_players(Only(argument, {AliasOrder[Least(Matching(argument))]}))
    ELSE outcome = Return(IF {"name", "scores"} \cap DOMAIN argument.v # {}
                          THEN <<argument>> ELSE <<>>)

\* players holds null and is passed over, members holds three entries which
\* are returned, and the name key of the mapping is not consulted.
C18_Witness ==
  /\ Called("_extract_players")
  /\ argument.t = "dict"
  /\ DOMAIN argument.v = {"players", "members", "name"}
  /\ argument.v["players"] = None
  /\ argument.v["members"].t = "list"
  /\ Len(argument.v["members"].v) = 3
  /\ outcome = Return(argument.v["members"].v)

\* C19: for a mapping with none of the four alias keys, _extract_players
\* returns the one-element sequence of the mapping itself exactly when the
\* mapping has a name key or a scores key, and the empty sequence otherwise,
\* so that a mapping with only score_array, holes or hole_scores yields no
\* player; and it raises for no mapping.
C19_Fallback ==
  (Called("_extract_players") /\ argument.t = "dict") =>
    /\ ~outcome.raised
    /\ Present(argument) = {} =>
         /\ ({"name", "scores"} \cap DOMAIN argument.v # {}) => outcome.value = <<argument>>
         /\ ({"name", "scores"} \cap DOMAIN argument.v = {}) => outcome.value = <<>>

\* The mapping has the keys score_array, holes and hole_scores only, and no
\* player is returned.
C19_Witness ==
  /\ Called("_extract_players")
  /\ argument.t = "dict"
  /\ DOMAIN argument.v = {"score_array", "holes", "hole_scores"}
  /\ outcome = Return(<<>>)

\* The element is an integer or a text that int() reads as one.
IsInteger(score) == score.t = "int" \/ (score.t = "str" /\ ~int(score).raised)

\* C20: in _has_valid_scores an element that is an integer, or a text
\* reading as one, makes the slice valid exactly when the integer is in
\* 1..15.  The scan returns true when it comes to such an element in range
\* (1 and 15 included); an element out of range (0, -1, 16, "0", "20") is
\* passed by as if it were not there, without reaching the fallback for
\* non-numeric values; and a slice of such elements only is valid exactly
\* when one of them is in range.
C20_IntegerRange ==
  Called("_has_valid_scores") =>
    /\ \A i \in 1..Len(argument.v) :
         IsInteger(argument.v[i]) =>
           IF int(argument.v[i]).value \in 1..15
           THEN HasValidScoresFrom(argument.v, i) = Return(TRUE)
           ELSE HasValidScoresFrom(argument.v, i) = HasValidScoresFrom(argument.v, i + 1)
    /\ (\A i \in 1..Len(argument.v) : IsInteger(argument.v[i])) =>
         outcome = Return(\E i \in 1..Len(argument.v) : int(argument.v[i]).value \in 1..15)

\* The slice ["20", 16] is invalid: its two elements read as integers above
\* 15.
C20_Witness ==
  /\ Called("_has_valid_scores")
  /\ argument = PyList(<<PyStr(<<"2", "0">>), PyInt(16)>>)
  /\ outcome = Return(FALSE)

(***************************************************************************)
(* Properties of Round.                                                    *)
(***************************************************************************)
\* C17: a Round is created unflagged with the empty reason, by the
\* constructor with its defaults and by from_api_response; after any
\* sequence of flag(r) and unflag() it shows the last call only (flagged
\* with r, or unflagged with the empty reason); so an unflagged round has
\* the empty reason in every reachable state; and neither call changes id,
\* event_id, name or date.
C17_RoundFlagState ==
  last_call.op # "" =>
    /\ last_call.op = "create" => (~round_obj.is_flagged /\ round_obj.flag_reason = "")
    /\ last_call.op = "flag" =>
         (round_obj.is_flagged /\ round_obj.flag_reason = last_call.reason)
    /\ last_call.op = "unflag" => (~round_obj.is_flagged /\ round_obj.flag_reason = "")
    /\ ~round_obj.is_flagged => round_obj.flag_reason = ""
    /\ round_obj.id = created.id
    /\ round_obj.event_id = created.event_id
    /\ round_obj.name = created.name
    /\ round_obj.date = created.date

\* A round made by from_api_response with a date has been flagged and then
\* unflagged.
C17_Witness ==
  /\ last_call.op = "unflag" /\ last_call.before = "flag"
  /\ created.date # None
  /\ created.name = PyStr(<<"R", "o", "u", "n", "d", " ", "2">>)
  /\ ~round_obj.is_flagged

\* What the fetch and the analysis of the i-th round came to.
ResultOf(i) == AnalyzeRoundOutcome(tee_sheets[i], rounds[i])

\* The two flagged states and the unflagged one of a round after its turn.
FlaggedByAnalyzer(i) ==
  /\ ~ResultOf(i).raised
  /\ rounds[i].is_flagged
  /\ rounds[i].flag_reason = ResultOf(i).value.reason

FlaggedAsUnretrievable(i) ==
  /\ ResultOf(i).raised
  /\ rounds[i].is_flagged
  /\ rounds[i].flag_reason = "Unable to retrieve scoring data: " \o ResultOf(i).msg

\* C16: in _analyze_scoring every round of the input list ends the pass in
\* exactly one state and none is dropped: flagged with the analyzer's reason
\* iff the analyzer returned is_flagged = True for its tee sheet, flagged
\* with "Unable to retrieve scoring data: <message>" iff fetching or
\* analysing its tee sheet raised, and unflagged with the empty reason
\* otherwise; a failure on one round never keeps the later rounds from
\* their turn (the pass ends by returning, with every round processed).
C16_EveryRoundSettled ==
  /\ driver_pc = "raised" => (~api /\ tee_sheets = <<>>)
  /\ driver_pc = "returned" => Len(tee_sheets) = Len(rounds)
  /\ driver_pc \in {"loop", "returned"} =>
       /\ Len(tee_sheets) = round_i - 1
       /\ \A i \in 1..Len(tee_sheets) :
            /\ FlaggedByAnalyzer(i) <=> (~ResultOf(i).raised /\ ResultOf(i).value.is_flagged)
            /\ FlaggedAsUnretrievable(i) <=> ResultOf(i).raised
            /\ ~(FlaggedByAnalyzer(i) \/ FlaggedAsUnretrievable(i)) =>
                 (~rounds[i].is_flagged /\ rounds[i].flag_reason = "")

\* The pass has returned after a round whose fetch failed in the client
\* (not a ValidationError) and a later round that the analyzer cleared.
C16_Witness ==
  /\ driver_pc = "returned"
  /\ Len(rounds) = 2
  /\ tee_sheets[1].response.raised
  /\ tee_sheets[1].response.type = "AuthenticationError"
  /\ rounds[1].flag_reason = "Unable to retrieve scoring data: Invalid API key or authentication failed"
  /\ ~tee_sheets[2].response.raised
  /\ ~rounds[2].is_flagged

(***************************************************************************)
(* Properties of the fallback of _has_valid_scores for non-numeric values. *)
(***************************************************************************)
\* The element is not a number (int, float or bool), is not skipped by line
\* 134, and int() does not read it.
Unparsed(score) ==
  /\ score.t \notin {"int", "float", "bool"}
  /\ ~IsSkipped(score)
  /\ int(score).raised

\* C21 (as claimed): in _has_valid_scores every element that is not skipped
\* by the null/""/0/{} rule and that int() does not read makes the slice
\* valid whenever its string form is non-empty and is not the text "{}":
\* the scan returns true when it comes to such an element.
C21_NonEmptyTextValid ==
  Called("_has_valid_scores") =>
    \A i \in 1..Len(argument.v) :
      (/\ Unparsed(argument.v[i])
       /\ Len(str(argument.v[i])) > 0
       /\ str(argument.v[i]) # <<"{", "}">>)
      => HasValidScoresFrom(argument.v, i) = Return(TRUE)

\* C21 (amended): the same, whenever the string form is non-empty once the
\* whitespace around it is stripped, and is not the text "{}".
C21_StrippedTextValid ==
  Called("_has_valid_scores") =>
    \A i \in 1..Len(argument.v) :
      (/\ Unparsed(argument.v[i])
       /\ Len(strip(str(argument.v[i]))) > 0
       /\ str(argument.v[i]) # <<"{", "}">>)
      => HasValidScoresFrom(argument.v, i) = Return(TRUE)

\* The slice [16, "X"] is valid: the integer out of range is passed by and
\* the text "X" decides.
C21_Witness ==
  /\ Called("_has_valid_scores")
  /\ argument = PyList(<<PyInt(16), PyStr(<<"X">>)>>)
  /\ outcome = Return(TRUE)

(***************************************************************************)
(* Properties that compare the results for related tee sheets.             *)
(***************************************************************************)
\* The public method that was called on the tee sheet, as a function.
Method(sheet) ==
  IF helper = "analyze_round_scoring" THEN analyze_round_scoring(sheet)
  ELSE get_detailed_analysis(sheet)

MethodCalled == Called("analyze_round_scoring") \/ Called("get_detailed_analysis")

\* The players of the {"players": [...]} entries that hold a list under
\* "scores", by position in the tee sheet.
ScoredPlayers(sheet) ==
  { pos \in (1..Len(sheet.v)) \X (1..3) :
      /\ sheet.v[pos[1]].t = "dict"
      /\ DOMAIN sheet.v[pos[1]].v = {"players"}
      /\ pos[2] <= Len(sheet.v[pos[1]].v["players"].v)
      /\ sheet.v[pos[1]].v["players"].v[pos[2]].t = "dict"
      /\ sheet.v[pos[1]].v["players"].v[pos[2]].v["scores"].t = "list" }

ScoresAt(sheet, pos) == sheet.v[pos[1]].v["players"].v[pos[2]].v["scores"].v

\* The tee sheet with entry k (from 1) of that player's scores set to x.
WithScore(sheet, pos, k, x) ==
  [sheet EXCEPT !.v[pos[1]].v["players"].v[pos[2]].v["scores"].v[k] = x]

\* The values an entry is changed to.
ScoreChanges == {None, PyInt(0), PyInt(4), PyStr(<<"X">>), PyInf}

\* C22: only the entries at indices 0-17 of a player's score list can
\* influence the half counts, and only when the list has at least 18
\* entries: changing an entry of a list of fewer than 18 entries, or an
\* entry at index 18 or beyond, changes neither the verdict nor the record
\* of counts; and a tee sheet whose players all have fewer than 18 entries
\* (9 valid front-nine scores, 17 valid scores) counts each of them in
\* total_players and none in a half count.
C22_OnlyFirstEighteen ==
  MethodCalled =>
    /\ \A pos \in ScoredPlayers(argument) :
         \A k \in 1..Len(ScoresAt(argument, pos)) :
           (Len(ScoresAt(argument, pos)) < 18 \/ k > 18) =>
             \A x \in ScoreChanges : Method(WithScore(argument, pos, k, x)) = outcome
    /\ (/\ Called("get_detailed_analysis")
        /\ Len(argument.v) > 0
        /\ \A i \in 1..Len(argument.v) : PlayersEntry(argument.v[i], 2)
        /\ \A pos \in ScoredPlayers(argument) : Len(ScoresAt(argument, pos)) < 18)
       => /\ outcome.value.total_players = Cardinality(ScoredPlayers(argument))
          /\ outcome.value.total_players = 2 * Len(argument.v)
          /\ outcome.value.front_9_players = 0
          /\ outcome.value.back_9_players = 0
          /\ outcome.value.complete_players = 0

\* get_detailed_analysis was called on a player with 9 valid scores and one
\* with 17, and then on a player whose entries from index 18 on hold a
\* valid score and an infinity: the one counts in the front nine only.
C22_Witness ==
  /\ Called("get_detailed_analysis")
  /\ argument = PyList(<<Players(<<NinePlayer, ShortPlayer>>), Players(<<LongFrontPlayer>>)>>)
  /\ outcome.value.total_players = 3
  /\ outcome.value.front_9_players = 1
  /\ outcome.value.back_9_players = 0

\* seq with x put in after its first p elements.
InsertAt(seq, p, x) == SubSeq(seq, 1, p) \o <<x>> \o SubSeq(seq, p + 1, Len(seq))

IsMapping(x) == x.t = "dict"

\* The entries of the tee sheet that hold a list under "players".
WithPlayerList(sheet) ==
  { i \in 1..Len(sheet.v) :
      /\ sheet.v[i].t = "dict"
      /\ "players" \in DOMAIN sheet.v[i].v
      /\ sheet.v[i].v["players"].t = "list" }

\* The tee sheet without its entries that are no mapping and without the
\* elements of its player lists that are no mapping.
StrippedEntry(item) ==
  IF "players" \in DOMAIN item.v /\ item.v["players"].t = "list"
  THEN [item EXCEPT !.v["players"].v = SelectSeq(@, IsMapping)]
  ELSE item

Stripped(sheet) ==
  PyList([i \in 1..Len(SelectSeq(sheet.v, IsMapping)) |->
            StrippedEntry(SelectSeq(sheet.v, IsMapping)[i])])

\* Values that are no mapping.
Strays == {None, PyInt(7), PyBool(TRUE), PyStr(Chars["players"]), PyList(<<CompletePlayer>>)}

\* C23: entries of the tee sheet and elements of a player list that are no
\* mapping are skipped silently.  Putting one in anywhere in a non-empty
\* tee sheet or in a player list, and taking all of them out of a tee sheet
\* that stays non-empty, leaves the verdict and the record of counts as
\* they are; a tee sheet of such entries only counts no player in any
\* count and reports no error.
C23_StraysSkipped ==
  MethodCalled =>
    /\ Len(argument.v) > 0 =>
         \A p \in 0..Len(argument.v) : \A x \in Strays :
           Method(PyList(InsertAt(argument.v, p, x))) = outcome
    /\ \A i \in WithPlayerList(argument) :
         \A q \in 0..Len(argument.v[i].v["players"].v) : \A x \in Strays :
           Method([argument EXCEPT !.v[i].v["players"].v = InsertAt(@, q, x)]) = outcome
    /\ Len(Stripped(argument).v) > 0 => Method(Stripped(argument)) = outcome
    /\ (Len(argument.v) > 0 /\ Len(Stripped(argument).v) = 0) =>
         IF Called("analyze_round_scoring")
         THEN outcome = Return([is_flagged |-> FALSE, reason |-> "No players found in tee sheet"])
         ELSE outcome = Return([ZeroRecord("No players found in tee sheet")
                                  EXCEPT !.is_flagged = FALSE])

\* get_detailed_analysis was called on a text and a front-only player, a
\* number and a back-only player in one list: two players are counted.
C23_Witness ==
  /\ Called("get_detailed_analysis")
  /\ argument = PyList(<<PyStr(Chars["players"]),
                         Players(<<FrontOnlyPlayer, PyInt(7), BackOnlyPlayer>>)>>)
  /\ outcome.value.total_players = 2
  /\ outcome.value.front_9_players = 1
  /\ outcome.value.back_9_players = 1

(***************************************************************************)
(* Further properties of the two public methods, step by step.             *)
(***************************************************************************)
\* C24: if the traversal in get_detailed_analysis raises, the returned
\* record has total_players, front_9_players, back_9_players,
\* complete_players and incomplete_players all 0, whatever the traversal had
\* counted before, with is_flagged true and the flag_reason
\* "Error analyzing scores: <message>".
C24_ErrorRecordIsZero ==
  (DetailedReturned /\ ~NoError) =>
    /\ analysis.total_players = 0
    /\ analysis.front_9_players = 0
    /\ analysis.back_9_players = 0
    /\ analysis.complete_players = 0
    /\ analysis.incomplete_players = 0
    /\ analysis.is_flagged = TRUE
    /\ analysis.flag_reason = "Error analyzing scores: " \o e.msg

\* The traversal raised on the third player, after it had counted a
\* complete and a front-only player of the first entry.
C24_Witness ==
  /\ DetailedReturned
  /\ e.type = "OverflowError"
  /\ detailed.total_players = 3
  /\ detailed.front_9_players = 2
  /\ detailed.complete_players = 1
  /\ analysis.total_players = 0
  /\ analysis.flag_reason = "Error analyzing scores: cannot convert float infinity to integer"

(***************************************************************************)
(* Order and summation.                                                    *)
(***************************************************************************)
\* seq in the order f, a permutation of its indices.
Permuted(seq, f) == [k \in 1..Len(seq) |-> seq[f[k]]]

\* The traversal of the tee sheet meets no exception.
Traversed(sheet) == AnalyzePass(sheet).exc = NoException

\* The counters of the two methods after the pass over a tee sheet.
CountersOf(pass, record) ==
  << pass.loc.total_players, pass.loc.total_front_9_scores, pass.loc.total_back_9_scores,
     record.value.total_players, record.value.front_9_players,
     record.value.back_9_players, record.value.complete_players,
     record.value.incomplete_players >>

Counters(sheet) == CountersOf(AnalyzePass(sheet), get_detailed_analysis(sheet))

\* Each counter of whole is the sum of the counters of the two parts.
IsSum(whole, first, second) == \A c \in 1..8 : whole[c] = first[c] + second[c]

\* C25: entries are processed independently and combined by summation
\* only.  For a tee sheet traversed without exception the verdict of
\* analyze_round_scoring and the record of get_detailed_analysis are the
\* same for every order of the entries and for every order of the players
\* within an entry, and each count for two tee sheets put one after the
\* other is the sum of the counts for the two.
C25_OrderAndSum ==
  (MethodCalled /\ Traversed(argument)) =>
    /\ \A f \in Permutations(1..Len(argument.v)) :
         Method(PyList(Permuted(argument.v, f))) = outcome
    /\ \A i \in WithPlayerList(argument) :
         \A f \in Permutations(1..Len(argument.v[i].v["players"].v)) :
           Method([argument EXCEPT !.v[i].v["players"].v = Permuted(@, f)]) = outcome
    /\ \A k \in 0..Len(argument.v) :
         IsSum(Counters(argument),
               Counters(PyList(SubSeq(argument.v, 1, k))),
               Counters(PyList(SubSeq(argument.v, k + 1, Len(argument.v)))))

\* get_detailed_analysis was called on a back-only player followed by an
\* entry with a front-only and a back-only player: three players, one
\* front nine, two back nines, as for the other orders.
C25_Witness ==
  /\ Called("get_detailed_analysis")
  /\ argument = PyList(<<Players(<<BackOnlyPlayer>>),
                         Players(<<FrontOnlyPlayer, PyInt(7), BackOnlyPlayer>>)>>)
  /\ outcome.value.total_players = 3
  /\ outcome.value.front_9_players = 1
  /\ outcome.value.back_9_players = 2
  /\ outcome.value.complete_players = 0

\* The five conditions of lines 70-97 on the counters, in the order of the
\* code.
PostPass(total_players, front, back) ==
  << total_players = 0,
     total_players # 0 /\ front > 0 /\ back > 0,
     total_players # 0 /\ front > 0 /\ ~(back > 0),
     total_players # 0 /\ back > 0 /\ ~(front > 0),
     total_players # 0 /\ ~(front > 0) /\ ~(back > 0) >>

ExactlyOne(conditions) == Cardinality({c \in 1..Len(conditions) : conditions[c]}) = 1

\* C26: the five conditions after the pass of analyze_round_scoring (no
\* players; both halves; front only; back only; neither) are exhaustive and
\* mutually exclusive, so the result (false, "Unexpected scoring state") of
\* line 100 is never returned: not for the counters of any call, and not
\* for any counters up to the most players a tee sheet of the model holds
\* (these are gone through once, before the call).
C26_FallThroughUnreachable ==
  /\ AnalyzeReturned => verdict.reason # "Unexpected scoring state"
  /\ (AnalyzeReturned /\ NoError /\ Truthy(tee_sheet_data)) =>
       ExactlyOne(PostPass(analyze.total_players, analyze.total_front_9_scores,
                           analyze.total_back_9_scores))
  /\ pc = "idle" =>
       \A total_players, front, back \in 0..MostPlayers :
         /\ ExactlyOne(PostPass(total_players, front, back))
         /\ Decide(total_players, front, back).reason # "Unexpected scoring state"

\* A pass has ended with one front nine and no back nine among two players,
\* and the call returned the front-only result.
C26_Witness ==
  /\ AnalyzeReturned /\ NoError
  /\ analyze.total_players = 2
  /\ analyze.total_front_9_scores = 1
  /\ analyze.total_back_9_scores = 0
  /\ verdict.reason = "Only front 9 scores found (1/2 players)"

\* C27: every record get_detailed_analysis returns satisfies
\* 0 <= complete_players <= min(front_9_players, back_9_players),
\* max(front_9_players, back_9_players) <= total_players,
\* front_9_players + back_9_players - complete_players <= total_players and
\* incomplete_players >= 0.
C27_CountsOrdered ==
  DetailedReturned =>
    /\ 0 <= analysis.complete_players
    /\ analysis.complete_players <= analysis.front_9_players
    /\ analysis.complete_players <= analysis.back_9_players
    /\ analysis.front_9_players <= analysis.total_players
    /\ analysis.back_9_players <= analysis.total_players
    /\ analysis.front_9_players + analysis.back_9_players - analysis.complete_players
         <= analysis.total_players
    /\ analysis.incomplete_players >= 0

\* The record of four players: three front nines, two back nines, one
\* complete player, three incomplete ones.
C27_Witness ==
  /\ DetailedReturned
  /\ analysis.total_players = 4
  /\ analysis.front_9_players = 3
  /\ analysis.back_9_players = 2
  /\ analysis.complete_players = 1
  /\ analysis.incomplete_players = 3

\* A front-only player and a back-only player, each in an entry of its own.
SplitHalvesSheet == PyList(<<Players(<<FrontOnlyPlayer>>), Players(<<BackOnlyPlayer>>)>>)

RECURSIVE FlaggedFrom(_)
FlaggedFrom(i) ==
  IF i > Len(rounds) THEN <<>>
  ELSE IF rounds[i].is_flagged THEN <<i>> \o FlaggedFrom(i + 1)
  ELSE FlaggedFrom(i + 1)

\* C29: the list _analyze_scoring returns holds exactly the input rounds
\* that are flagged at the end of the pass, each once and in input order;
\* during the pass the rounds not yet reached are as they were given
\* (unflagged), a turn of the loop changes no round but its own, and a
\* round once flagged is neither cleared nor flagged again.
C29_FlaggedListed ==
  /\ [](driver_pc \in {"loop", "returned"} =>
         /\ flagged_rounds = FlaggedFrom(1)
         /\ \A i \in round_i..Len(rounds) : rounds[i] \in InputRounds)
  /\ [][driver_pc = "loop" =>
          /\ Len(rounds') = Len(rounds)
          /\ \A i \in 1..Len(rounds) :
               (i # round_i \/ rounds[i].is_flagged) => rounds'[i] = rounds[i]]_vars

\* The pass over two rounds has returned the second only: the first was
\* cleared by the analyzer, the second could not be fetched.
C29_Witness ==
  /\ driver_pc = "returned"
  /\ Len(rounds) = 2
  /\ flagged_rounds = <<2>>
  /\ ~rounds[1].is_flagged
  /\ tee_sheets[2].response.raised

\* The events of a page as get_events returned them.
PageEvents(answer) == Iterate(answer.value.v["events"]).value

\* The fetch of a page raised, or the page has no events.
EndsPaging(answer) == answer.raised \/ PageEvents(answer) = <<>>

\* C30: get_all_events always terminates, whatever the provider returns: the
\* pages requested are 1, 2, 3, ... in this order, none skipped or repeated,
\* and never more than 1000; the loop is left at the first page that is
\* empty or whose fetch raises, and otherwise after page 1000; every page
\* before the stop adds exactly its events, in their order, after the events
\* of the earlier pages, and the page of the stop changes nothing collected;
\* what is returned is the list collected.
C30_PagesInOrderThenReturned ==
  /\ [](pager_pc # "idle" =>
         /\ requested = [i \in 1..Len(requested) |-> i]
         /\ Len(requested) <= 1000
         /\ (requested = <<>> => all_events = <<>> /\ pager_pc = "loop"))
  /\ [][pager_pc = "loop" =>
          /\ requested' = Append(requested, Len(requested) + 1)
          /\ all_events' = all_events \o (IF EndsPaging(last_answer') THEN <<>>
                                           ELSE PageEvents(last_answer'))
          /\ pager_pc' = IF EndsPaging(last_answer') \/ Len(requested') = 1000
                         THEN "stopped" ELSE "loop"]_vars
  /\ [][pager_pc = "stopped" =>
          pager_pc' = "returned" /\ all_events' = all_events /\ requested' = requested]_vars
  /\ (pager_pc = "loop" ~> pager_pc = "returned")

\* Every one of the 1000 pages had events, and all of them were returned.
C30_Witness ==
  /\ pager_pc = "returned"
  /\ Len(requested) = 1000
  /\ ~EndsPaging(last_answer)
  /\ Len(all_events) >= 1000
  /\ all_events[Len(all_events)] = PyInt(1000)

====
